---- MODULE Spec2Model ----
(***************************************************************************)
(* The staff role-toggle command (Staff.exec) of the bot, together with    *)
(* the argument casting of the command framework that produces its         *)
(* `member` argument.  Several invocations of the command may be in flight *)
(* at once: every `await` of exec is a point where another invocation may  *)
(* run.                                                                    *)
(***************************************************************************)
EXTENDS Integers, Sequences, FiniteSets, TLC

\* Bound of the model: the invocations started in one behaviour.
MaxInvocations == 3

\* The invocations that may be in flight at once.
Invs == {1, 2}

\* The guild: its members, the role ids that may exist in it, and the
\* texts a user may type as the command's argument.
Members == {"101", "102"}
RoleIds == {"r1", "r2"}
Phrases == {"", "101", "<@102>", "bo", "zzz"}

\* What database.getRole yields for a guild without a 'staff' binding.
NoData == "nodata"
\* A role fetch that found nothing (or was caught): `null`.
NullRole == "null"

RoleName(r) == IF r = "r1" THEN "Staff" ELSE "Helper"
Username(m) == IF m = "101" THEN "alice" ELSE "bob"
UserTag(m) == IF m = "101" THEN "alice#0001" ELSE "bob#0002"

(***************************************************************************)
(* Argument casting.  A cast value is a record: kind "null" is null, kind  *)
(* "member" a GuildMember, kind "string" a plain string.                   *)
(***************************************************************************)
NullArg == [kind |-> "null", val |-> ""]

\* text.match(/<@!?(\d{17,19})>/): the id a mention carries, "" without a match.
MentionId(text) ==
    IF text = "<@101>" THEN "101" ELSE IF text = "<@102>" THEN "102" ELSE ""

\* name.includes(text), on the names and texts of the model.
Includes(name, text) ==
    \/ text = name
    \/ name = "alice" /\ text \in {"al", "ali", "lice"}
    \/ name = "bob" /\ text \in {"bo", "ob"}

\* checkMember with caseSensitive = false, wholeWord = false (the texts of the
\* model are lower case and carry no '#').
checkMember(text, m) ==
    \/ m = text
    \/ MentionId(text) # "" /\ m = MentionId(text)
    \/ Includes(Username(m), text)

\* resolveMember: members.get(text) ?? members.find(checkMember) ?? null.
resolveMember(text) ==
    IF text \in Members THEN [kind |-> "member", val |-> text]
    ELSE IF \E m \in Members : checkMember(text, m)
         THEN [kind |-> "member", val |-> CHOOSE m \in Members : checkMember(text, m)]
         ELSE NullArg

\* The built-in 'member' type.
MemberType(phrase) == IF phrase = "" THEN NullArg ELSE resolveMember(phrase)

\* The built-in 'string' type: phrase || null.
StringType(phrase) ==
    IF phrase = "" THEN NullArg ELSE [kind |-> "string", val |-> phrase]

\* Argument.cast on a built-in type name.
cast(type, phrase) ==
    IF type = "member" THEN MemberType(phrase) ELSE StringType(phrase)

isFailureNullOnly(value) == value.kind = "null"

\* Argument.isFailure: value == null || Flag.is(value, FlagType.Fail).
isFailure(value) == value.kind \in {"null", "undefined", "fail"}

\* Argument.union(...types): the first cast that is not a failure, else null.
RECURSIVE union(_, _)
union(types, phrase) ==
    IF types = <<>> THEN NullArg
    ELSE LET res == cast(Head(types), phrase)
         IN IF ~isFailure(res) THEN res ELSE union(Tail(types), phrase)

\* The `member` argument of the staff command.
StaffArgs(phrase) == union(<<"member", "string">>, phrase)

\* JavaScript truthiness of a cast value (a cast string is never empty).
Truthy(value) == value.kind # "null"

(***************************************************************************)
(* State.                                                                  *)
(***************************************************************************)
VARIABLES
    binding,      \* the role-binding store: the guild's 'staff' role id, or NoData
    guildRoles,   \* the role ids that exist in the guild
    memberRoles,  \* member -> the role ids the member holds
    pc,           \* invocation -> where exec stands
    arg,          \* invocation -> args.member
    data,         \* invocation -> what getRole returned
    role,         \* invocation -> what the role fetch returned
    observed,     \* invocation -> outcome of roles.cache.has at line 61
    log,          \* invocation -> the external calls exec has issued, in order
    failed,       \* invocation -> the external calls that rejected, plus "TypeError"
    pre,          \* invocation -> memberRoles when the invocation started
    started       \* number of invocations started so far

staffVars == <<binding, guildRoles, memberRoles, pc, arg, data, role, observed,
               log, failed, pre, started>>

(***************************************************************************)
(* State of the other modules: the component base class, the ready         *)
(* listener and the parts of the command framework.  Each has its own      *)
(* specification below; in the specification of one module the others      *)
(* stay as constructed.                                                    *)
(***************************************************************************)
VARIABLES
    compInst,        \* the component instance: its class and its two flags
    compCalls,       \* what each call of its exec settled with, in order
    readyClient,     \* the client the ready listener belongs to: user tag and token
    readyLog,        \* the calls ReadyListener.exec has made, in order
    readySends,      \* state of each webhook send: "pending", "sent" or "failed"
    readyExecs,      \* how each call of ReadyListener.exec settled
    readyUnhandled,  \* the sends whose rejection no handler took
    cmCommands,      \* context menu handler: command name -> the loaded command
    cmErrListener,   \* whether an ERROR listener is registered on the handler
    cmPc,            \* where handle stands
    cmInter,         \* the interaction being handled
    cmEvents,        \* the events handle has emitted, in order
    cmExecs,         \* the calls of command.exec handle has made
    cmRet,           \* what handle returned, or the error it rejected with
    hModules,        \* AkairoHandler.modules: id -> the module's filepath and categoryID
    hCategories,     \* AkairoHandler.categories: category id -> ids of its modules
    hLast,           \* the last operation called on the handler and how it ended
    inhModules,      \* InhibitorHandler.modules, in insertion order
    inhPc,           \* where test stands
    inhType,         \* the type test was called with
    inhExecuted,     \* the inhibitors whose exec test has called
    inhPending,      \* the inhibitors whose exec promise has not settled yet
    inhRet,          \* what test returned
    argCfg,          \* the argument's options: otherwise, default and the prompt options
    argPc,           \* where process / collect stands
    argPhrase,       \* the phrase process was called with
    argRetryCount,   \* retryCount of the promptOne call that awaits a reply
    argValues,       \* values: the inputs an infinite prompt has collected
    argSent,         \* the texts process and collect have sent, in order
    argRet,          \* what process returned
    argCollects,     \* the calls of collect process has made
    argReplies,      \* the replies collect has received
    argOnlyFailures, \* whether all that collect received were replies failing to cast
    argStreak,       \* the replies in a row, up to now, that added no value
    argEnd,          \* why collect returned
    unTypes,         \* the types given to Argument.union: what each casts the phrase to
    unPc,            \* where the type function of the union stands
    unInvoked,       \* the types the type function has cast with, in order
    unRet,           \* what the type function returned
    chGuild,         \* the ids of the channels in message.guild.channels.cache
    chCall,          \* the last call of a built-in channel type: type name, phrase, message.inGuild()
    chRet,           \* what that call returned
    cuLast,          \* CommandUtil.lastResponse: the id of a channel message, 0 for null
    cuShouldEdit,    \* CommandUtil.shouldEdit
    cuChannel,       \* the messages sent to the channel: id -> attachments and number of edits
    cuDeleted,       \* CommandUtil.deletedMessages
    cuPc,            \* where send stands
    cuLog,           \* one entry per call of send: what it did and the state it decided on
    cuQuiet,         \* whether nothing but sends without files has happened so far
    tkTasks,         \* TaskHandler.modules: id -> runOnStart and delay of the task
    tkListeners,     \* the once-listeners startAll has put on the client's ready event
    tkReadyAt,       \* the time of the ready event the listener ran on, -1 before it
    tkAtReady,       \* the tasks that were registered when the listener ran
    tkClock,         \* the time, in units of the shortest delay
    tkTimers,        \* the intervals set: id -> the time the interval fires next
    tkRuns,          \* id -> the times at which the exec of the task was called
    tkRan,           \* the number of listeners that ran on the ready event
    cpContent,       \* the content given to ContentParser.parse, a sequence of characters
    cpOptions,       \* ContentParser.quoted and ContentParser.separator
    cpPhase,         \* where parse is: "idle", "tokenize", "parse", "returned" or "thrown"
    cpPosition,      \* Tokenizer.position, then Parser.position (counted from 1)
    cpState,         \* Tokenizer.state
    cpTokens,        \* Tokenizer.tokens, then Parser.tokens
    cpResults        \* Parser.results.all

compVars == <<compInst, compCalls>>
readyVars == <<readyClient, readyLog, readySends, readyExecs, readyUnhandled>>
cmVars == <<cmCommands, cmErrListener, cmPc, cmInter, cmEvents, cmExecs, cmRet>>
handlerVars == <<hModules, hCategories, hLast>>
inhVars == <<inhModules, inhPc, inhType, inhExecuted, inhPending, inhRet>>
argVars == <<argCfg, argPc, argPhrase, argRetryCount, argValues, argSent, argRet,
             argCollects, argReplies, argOnlyFailures, argStreak, argEnd>>

unionVars == <<unTypes, unPc, unInvoked, unRet>>

chVars == <<chGuild, chCall, chRet>>

cuVars == <<cuLast, cuShouldEdit, cuChannel, cuDeleted, cuPc, cuLog, cuQuiet>>

tkVars == <<tkTasks, tkListeners, tkReadyAt, tkAtReady, tkClock, tkTimers, tkRuns, tkRan>>

cpVars == <<cpContent, cpOptions, cpPhase, cpPosition, cpState, cpTokens, cpResults>>

vars ==
    <<staffVars, compVars, readyVars, cmVars, handlerVars, inhVars,
      argVars, unionVars, chVars, cuVars, tkVars, cpVars>>

\* What each specification leaves alone.
notStaff ==
    <<compVars, readyVars, cmVars, handlerVars, inhVars, argVars,
      unionVars, chVars, cuVars, tkVars, cpVars>>
notComp ==
    <<staffVars, readyVars, cmVars, handlerVars, inhVars, argVars,
      unionVars, chVars, cuVars, tkVars, cpVars>>
notReady ==
    <<staffVars, compVars, cmVars, handlerVars, inhVars, argVars,
      unionVars, chVars, cuVars, tkVars, cpVars>>
notHandler ==
    <<staffVars, compVars, readyVars, cmVars, inhVars, argVars, unionVars,
      chVars, cuVars, tkVars, cpVars>>
notCm ==
    <<staffVars, compVars, readyVars, handlerVars, inhVars, argVars,
      unionVars, chVars, cuVars, tkVars, cpVars>>
notArg ==
    <<staffVars, compVars, readyVars, cmVars, handlerVars, inhVars,
      unionVars, chVars, cuVars, tkVars, cpVars>>
notInh ==
    <<staffVars, compVars, readyVars, cmVars, handlerVars, argVars,
      unionVars, chVars, cuVars, tkVars, cpVars>>
notCh ==
    <<staffVars, compVars, readyVars, cmVars, handlerVars, inhVars,
      argVars, unionVars, cuVars, tkVars, cpVars>>
notUnion ==
    <<staffVars, compVars, readyVars, cmVars, handlerVars, inhVars,
      argVars, chVars, cuVars, tkVars, cpVars>>
notTk ==
    <<staffVars, compVars, readyVars, cmVars, handlerVars, inhVars,
      argVars, unionVars, chVars, cuVars, cpVars>>
notCu ==
    <<staffVars, compVars, readyVars, cmVars, handlerVars, inhVars,
      argVars, unionVars, chVars, tkVars, cpVars>>
notCp ==
    <<staffVars, compVars, readyVars, cmVars, handlerVars, inhVars,
      argVars, unionVars, chVars, cuVars, tkVars>>

\* The modules as constructed, before anything is delivered to them.
CompIdle ==
    /\ compInst = [cls |-> "Component", enabled |-> "true", disableAfterUse |-> "false"]
    /\ compCalls = <<>>
CmIdle ==
    /\ cmCommands = [n \in {} |-> n]
    /\ cmErrListener = FALSE
    /\ cmPc = "idle"
    /\ cmInter = [commandName |-> "", user |-> ""]
    /\ cmEvents = <<>>
    /\ cmExecs = 0
    /\ cmRet = "none"
ReadyIdle ==
    /\ readyClient = [tag |-> "Aware#0001", token |-> "token-a"]
    /\ readyLog = <<>>
    /\ readySends = <<>>
    /\ readyExecs = <<>>
    /\ readyUnhandled = {}
HandlerIdle ==
    /\ hModules = [i \in {} |-> i]
    /\ hCategories = [c \in {} |-> c]
    /\ hLast = [op |-> "none", id |-> "", result |-> "none"]
InhIdle ==
    /\ inhModules = <<>>
    /\ inhPc = "idle"
    /\ inhType = ""
    /\ inhExecuted = {}
    /\ inhPending = {}
    /\ inhRet = [kind |-> "none", val |-> ""]
ArgIdle ==
    /\ argCfg = [otherwise |-> "null", modifyOtherwise |-> "null", default |-> "null",
                 prompt |-> FALSE, optional |-> FALSE, infinite |-> FALSE,
                 match |-> "phrase", retries |-> 1, limit |-> 1000,
                 breakout |-> TRUE]
    /\ argPc = "idle"
    /\ argPhrase = ""
    /\ argRetryCount = 0
    /\ argValues = <<>>
    /\ argSent = <<>>
    /\ argRet = [kind |-> "none", val |-> ""]
    /\ argCollects = 0
    /\ argReplies = 0
    /\ argOnlyFailures = TRUE
    /\ argStreak = 0
    /\ argEnd = "none"
UnionIdle ==
    /\ unTypes = <<>>
    /\ unPc = "idle"
    /\ unInvoked = <<>>
    /\ unRet = [kind |-> "none", val |-> ""]
ChIdle ==
    /\ chGuild = {}
    /\ chCall = [type |-> "", phrase |-> "", inGuild |-> TRUE]
    /\ chRet = [kind |-> "none", val |-> {}]
CuIdle ==
    /\ cuLast = 0
    /\ cuShouldEdit = FALSE
    /\ cuChannel = <<>>
    /\ cuDeleted = {}
    /\ cuPc = "idle"
    /\ cuLog = <<>>
    /\ cuQuiet = TRUE
TkIdle ==
    /\ tkTasks = <<>>
    /\ tkListeners = 0
    /\ tkReadyAt = -1
    /\ tkAtReady = {}
    /\ tkClock = 0
    /\ tkTimers = <<>>
    /\ tkRuns = <<>>
    /\ tkRan = 0
CpIdle ==
    /\ cpContent = <<>>
    /\ cpOptions = <<>>
    /\ cpPhase = "idle"
    /\ cpPosition = 1
    /\ cpState = 0
    /\ cpTokens = <<>>
    /\ cpResults = <<>>

\* One entry of an invocation's log of external calls.
Call(op, target, r, text) == [op |-> op, target |-> target, role |-> r, text |-> text]

GetRoleCall == Call("getRole", "", "", "staff")
FetchCall(id) == Call("fetch", "", id, "")
SendCall(text, roleName, tag) == Call("send", tag, roleName, text)
MutationCallOnFirstMember(op, m, id) == Call(op, "101", id, "")
MutationCall(op, m, id) == Call(op, m, id, "")

Init ==
    /\ binding \in {NoData} \cup RoleIds
    /\ guildRoles \in SUBSET RoleIds
    /\ memberRoles \in [Members -> SUBSET guildRoles]
    /\ pc = [i \in Invs |-> "idle"]
    /\ arg = [i \in Invs |-> NullArg]
    /\ data = [i \in Invs |-> NoData]
    /\ role = [i \in Invs |-> NullRole]
    /\ observed = [i \in Invs |-> "none"]
    /\ log = [i \in Invs |-> <<>>]
    /\ failed = [i \in Invs |-> {}]
    /\ pre = [i \in Invs |-> memberRoles]
    /\ started = 0
    /\ CompIdle
    /\ ReadyIdle
    /\ CmIdle
    /\ HandlerIdle
    /\ InhIdle
    /\ ArgIdle
    /\ UnionIdle
    /\ ChIdle
    /\ CuIdle
    /\ TkIdle
    /\ CpIdle

\* The staff command with no invocation delivered, in a guild without roles.
StaffIdle ==
    /\ binding = NoData
    /\ guildRoles = {}
    /\ memberRoles = [m \in Members |-> {}]
    /\ pc = [i \in Invs |-> "idle"]
    /\ arg = [i \in Invs |-> NullArg]
    /\ data = [i \in Invs |-> NoData]
    /\ role = [i \in Invs |-> NullRole]
    /\ observed = [i \in Invs |-> "none"]
    /\ log = [i \in Invs |-> <<>>]
    /\ failed = [i \in Invs |-> {}]
    /\ pre = [i \in Invs |-> memberRoles]
    /\ started = 0

\* The replies of exec.
ProvideValidUser == "Please provide a valid user."
NotSetup == "Staff Role is not setupped in this server!"
NotPresent == "Staff Role is not present in this server!"
Removed == "Removed"
Added == "Added"

(***************************************************************************)
(* Staff.exec, one action per `await`.                                     *)
(***************************************************************************)

\* The command is invoked with the text `phrase` as its argument: the
\* framework casts the argument and exec issues getRole (line 33).
Start(i, phrase) ==
    /\ pc[i] \in {"idle", "done", "rejected"}
    /\ started < MaxInvocations
    /\ started' = started + 1
    /\ arg' = [arg EXCEPT ![i] = StaffArgs(phrase)]
    /\ data' = [data EXCEPT ![i] = NoData]
    /\ role' = [role EXCEPT ![i] = NullRole]
    /\ observed' = [observed EXCEPT ![i] = "none"]
    /\ failed' = [failed EXCEPT ![i] = {}]
    /\ pre' = [pre EXCEPT ![i] = memberRoles]
    /\ log' = [log EXCEPT ![i] = <<GetRoleCall>>]
    /\ pc' = [pc EXCEPT ![i] = "getRole"]
    /\ UNCHANGED <<binding, guildRoles, memberRoles>>
    /\ UNCHANGED notStaff

\* Lines 35-51: what exec does once getRole has returned `d`.
AfterGetRoleBindingFirst(a, d) ==
    IF d = NoData THEN "notsetup"
    ELSE IF ~Truthy(a) THEN "provide"
    ELSE "fetch"
AfterGetRoleNoBindingCheck(a, d) ==
    IF ~Truthy(a) THEN "provide" ELSE "fetch"
AfterGetRole(a, d) ==
    IF ~Truthy(a) THEN "provide"
    ELSE IF d = NoData THEN "notsetup"
    ELSE "fetch"

\* getRole resolves with the binding of the store.
GetRoleResolve(i) ==
    /\ pc[i] = "getRole"
    /\ data' = [data EXCEPT ![i] = binding]
    /\ LET next == AfterGetRole(arg[i], binding)
       IN /\ log' = [log EXCEPT ![i] = Append(@,
                        CASE next = "provide" -> SendCall(ProvideValidUser, "", "")
                          [] next = "notsetup" -> SendCall(NotSetup, "", "")
                          [] OTHER -> FetchCall(binding))]
          /\ pc' = [pc EXCEPT ![i] = IF next = "fetch" THEN "fetch" ELSE "send"]
    /\ UNCHANGED <<binding, guildRoles, memberRoles, arg, role, observed,
                   failed, pre, started>>
    /\ UNCHANGED notStaff

\* getRole rejects: nothing in exec catches it.
GetRoleReject(i) ==
    /\ pc[i] = "getRole"
    /\ failed' = [failed EXCEPT ![i] = @ \cup {"getRole"}]
    /\ pc' = [pc EXCEPT ![i] = "rejected"]
    /\ UNCHANGED <<binding, guildRoles, memberRoles, arg, data, role, observed,
                   log, pre, started>>
    /\ UNCHANGED notStaff

\* Line 51: guild.roles.fetch(data).catch(() => null).  `ok` is whether the
\* request went through; a rejection is turned into null.
rolesFetchAny(id, ok) == id
rolesFetch(id, ok) == IF ok /\ id \in guildRoles THEN id ELSE NullRole

\* Lines 53-71: what exec does once the fetch has settled with `r`.
AfterFetchNoRoleCheck(a, r) ==
    IF a.kind # "member" THEN "TypeError" ELSE "toggle"
AfterFetch(a, r) ==
    IF r = NullRole THEN "notpresent"
    ELSE IF a.kind # "member" THEN "TypeError"
    ELSE "toggle"

\* Lines 61-71: remove the role when the member holds it, add it otherwise.
ToggleOpSwapped(held) == IF held THEN "add" ELSE "remove"
ToggleOpAlwaysAdd(held) == "add"
ToggleOpAlwaysRemove(held) == "remove"
ToggleOp(held) == IF held THEN "remove" ELSE "add"

FetchSettle(i, ok) ==
    /\ pc[i] = "fetch"
    /\ LET r == rolesFetch(data[i], ok)
           next == AfterFetch(arg[i], r)
           m == arg[i].val
           held == IF next = "toggle" THEN data[i] \in memberRoles[m] ELSE FALSE
       IN /\ role' = [role EXCEPT ![i] = r]
          /\ failed' = [failed EXCEPT ![i] =
                 @ \cup (IF ok THEN {} ELSE {"fetch"})
                   \cup (IF next = "TypeError" THEN {"TypeError"} ELSE {})]
          /\ observed' = [observed EXCEPT ![i] =
                 IF next = "toggle" THEN (IF held THEN "held" ELSE "notheld") ELSE "none"]
          /\ log' = [log EXCEPT ![i] =
                 CASE next = "notpresent" -> Append(@, SendCall(NotPresent, "", ""))
                   [] next = "toggle" -> Append(@, MutationCall(ToggleOp(held), m, r))
                   [] OTHER -> @]
          /\ pc' = [pc EXCEPT ![i] =
                 CASE next = "notpresent" -> "send"
                   [] next = "toggle" -> "mutate"
                   [] OTHER -> "rejected"]
    /\ UNCHANGED <<binding, guildRoles, memberRoles, arg, data, pre, started>>
    /\ UNCHANGED notStaff

\* The mutation exec is waiting for (the last call of its log).
Pending(i) == log[i][Len(log[i])]

ApplyMutationToggles(op, held, id) ==
    IF id \in held THEN held \ {id} ELSE held \cup {id}

\* The platform's effect of roles.add / roles.remove on a member's roles.
ApplyMutation(op, held, id) ==
    IF op = "add" THEN held \cup {id} ELSE held \ {id}

\* Lines 62-66 and 71-75: the add/remove resolves and exec sends its reply.
ReplyAfter(op) == IF op = "remove" THEN Removed ELSE Added

MutateResolve(i) ==
    /\ pc[i] = "mutate"
    /\ LET c == Pending(i)
       IN /\ memberRoles' = [memberRoles EXCEPT
                 ![c.target] = ApplyMutation(c.op, @, c.role)]
          /\ log' = [log EXCEPT ![i] = Append(@,
                 SendCall(ReplyAfter(c.op), RoleName(role[i]), UserTag(arg[i].val)))]
    /\ pc' = [pc EXCEPT ![i] = "send"]
    /\ UNCHANGED <<binding, guildRoles, arg, data, role, observed, failed,
                   pre, started>>
    /\ UNCHANGED notStaff

\* What becomes of exec when roles.add / roles.remove rejects: the rejection
\* is not caught, so exec rejects without a reply.
OnMutationRejectCaught(i, op) ==
    /\ log' = [log EXCEPT ![i] = Append(@, SendCall(NotPresent, "", ""))]
    /\ pc' = [pc EXCEPT ![i] = "send"]
OnMutationRejectRetry(i, op) ==
    /\ log' = [log EXCEPT ![i] = Append(@, Pending(i))]
    /\ pc' = pc
OnMutationReject(i, op) ==
    /\ log' = log
    /\ pc' = [pc EXCEPT ![i] = "rejected"]

MutateReject(i) ==
    /\ pc[i] = "mutate"
    /\ failed' = [failed EXCEPT ![i] = @ \cup {Pending(i).op}]
    /\ OnMutationReject(i, Pending(i).op)
    /\ UNCHANGED <<binding, guildRoles, memberRoles, arg, data, role, observed,
                   pre, started>>
    /\ UNCHANGED notStaff

\* message.util.send resolves: exec returns.
SendResolve(i) ==
    /\ pc[i] = "send"
    /\ pc' = [pc EXCEPT ![i] = "done"]
    /\ UNCHANGED <<binding, guildRoles, memberRoles, arg, data, role, observed,
                   log, failed, pre, started>>
    /\ UNCHANGED notStaff

\* message.util.send rejects: exec rejects.
SendReject(i) ==
    /\ pc[i] = "send"
    /\ failed' = [failed EXCEPT ![i] = @ \cup {"send"}]
    /\ pc' = [pc EXCEPT ![i] = "rejected"]
    /\ UNCHANGED <<binding, guildRoles, memberRoles, arg, data, role, observed,
                   log, pre, started>>
    /\ UNCHANGED notStaff

Next ==
    \E i \in Invs :
        \/ \E phrase \in Phrases : Start(i, phrase)
        \/ GetRoleResolve(i)
        \/ GetRoleReject(i)
        \/ \E ok \in BOOLEAN : FetchSettle(i, ok)
        \/ MutateResolve(i)
        \/ MutateReject(i)
        \/ SendResolve(i)
        \/ SendReject(i)

Spec == Init /\ [][Next]_vars

(***************************************************************************)
(* Properties.                                                             *)
(***************************************************************************)
IsMutation(c) == c.op \in {"add", "remove"}
IsSend(c) == c.op = "send"
IsFetch(c) == c.op = "fetch"

\* The add/remove calls, the replies and the role fetches of an invocation.
Mutations(i) == SelectSeq(log[i], IsMutation)
Sends(i) == SelectSeq(log[i], IsSend)
Fetches(i) == SelectSeq(log[i], IsFetch)

\* exec got past all three checks: member resolved, binding present, role resolved.
Passed(i) == arg[i].kind = "member" /\ data[i] # NoData /\ role[i] # NullRole

SymDiff(a, b) == (a \ b) \cup (b \ a)

\* C1: when the member is resolved, the binding exists, the role resolves and
\* the member does not hold the role, exec calls roles.add with the role id,
\* never roles.remove, and then sends the 'Added' reply with the role's name
\* and the member's tag.
C1_AddWhenNotHeld ==
    \A i \in Invs :
        (Passed(i) /\ observed[i] = "notheld") =>
            /\ Mutations(i) = <<MutationCall("add", arg[i].val, role[i])>>
            /\ Sends(i) \in {<<>>, <<SendCall(Added, RoleName(role[i]), UserTag(arg[i].val))>>}
            /\ (pc[i] = "done" =>
                   /\ Len(Sends(i)) = 1
                   /\ log[i][Len(log[i]) - 1].op = "add"
                   /\ log[i][Len(log[i])].op = "send")

C1_Witness ==
    \E i \in Invs :
        /\ pc[i] = "done" /\ Passed(i) /\ observed[i] = "notheld"
        /\ Sends(i) = <<SendCall(Added, "Staff", "bob#0002")>>
        /\ "r1" \in memberRoles["102"]

\* C2: when the member is resolved, the binding exists, the role resolves and
\* the member holds the role, exec calls roles.remove with the role id, never
\* roles.add, and then sends the 'Removed' reply with the role's name and the
\* member's tag.
C2_RemoveWhenHeld ==
    \A i \in Invs :
        (Passed(i) /\ observed[i] = "held") =>
            /\ Mutations(i) = <<MutationCall("remove", arg[i].val, role[i])>>
            /\ Sends(i) \in {<<>>, <<SendCall(Removed, RoleName(role[i]), UserTag(arg[i].val))>>}
            /\ (pc[i] = "done" =>
                   /\ Len(Sends(i)) = 1
                   /\ log[i][Len(log[i]) - 1].op = "remove"
                   /\ log[i][Len(log[i])].op = "send")

C2_Witness ==
    \E i \in Invs :
        /\ pc[i] = "done" /\ Passed(i) /\ observed[i] = "held"
        /\ Sends(i) = <<SendCall(Removed, "Helper", "alice#0001")>>
        /\ "r2" \notin memberRoles["101"]

\* C3: an invocation never issues more than one add/remove; one that returned
\* issued exactly one when the member was resolved, the binding existed and
\* the role resolved, and none when any of the three failed.
C3_OneMutationOrNone ==
    \A i \in Invs :
        /\ Len(Mutations(i)) <= 1
        /\ (pc[i] = "done" =>
               Len(Mutations(i)) = IF Passed(i) THEN 1 ELSE 0)

C3_Witness ==
    \E i, j \in Invs :
        /\ pc[i] = "done" /\ Passed(i) /\ Len(Mutations(i)) = 1
        /\ pc[j] = "done" /\ arg[j].kind = "member" /\ data[j] # NoData
        /\ role[j] = NullRole /\ Len(Mutations(j)) = 0

\* C4 as stated: after an invocation on a resolved member in a guild with a
\* binding, the member's roles differ from those at the start of the
\* invocation by exactly the bound role.
C4_NeverNoOp ==
    \A i \in Invs :
        (pc[i] = "done" /\ binding # NoData /\ arg[i].kind = "member") =>
            SymDiff(memberRoles[arg[i].val], pre[i][arg[i].val]) = {binding}

\* C4, amended: role membership changes only when an invocation's add/remove
\* resolves, which takes a resolved member, a binding and a resolved role;
\* that step leaves the member holding the bound role exactly if the
\* invocation observed it as not held, and changes no other role of the
\* member and no role of another member.  Every other step of an invocation
\* (also with the binding present) leaves all role sets as they are.
C4_ToggleEffect ==
    [][ /\ \A i \in Invs :
            (pc[i] = "mutate" /\ pc'[i] = "send") =>
                LET m == arg[i].val
                    r == role[i]
                IN /\ Passed(i) /\ r = binding
                   /\ (r \in memberRoles'[m]) <=> (observed[i] = "notheld")
                   /\ memberRoles'[m] \ {r} = memberRoles[m] \ {r}
                   /\ \A n \in Members \ {m} : memberRoles'[n] = memberRoles[n]
        /\ (\A i \in Invs : ~(pc[i] = "mutate" /\ pc'[i] = "send")) =>
               memberRoles' = memberRoles
      ]_vars

C4_Witness ==
    \E i, j \in Invs :
        /\ pc[i] = "done" /\ Passed(i) /\ observed[i] = "notheld"
        /\ binding \in memberRoles[arg[i].val]
        /\ SymDiff(memberRoles[arg[i].val], pre[i][arg[i].val]) = {binding}
        /\ pc[j] = "done" /\ arg[j].kind = "member" /\ role[j] = NullRole
        /\ binding # NoData /\ memberRoles = pre[j]

\* C5: with a target text that resolves to no member, exec raises no
\* exception, whatever the binding and the role are.
C5_InvalidMemberRecovered ==
    \A i \in Invs :
        arg[i].kind = "string" => "TypeError" \notin failed[i]

\* C6: with no target member, exec issues no add/remove, and its only reply
\* is 'Please provide a valid user', whatever the binding and the role are.
C6_NoMember ==
    \A i \in Invs :
        (pc[i] # "idle" /\ arg[i].kind = "null") =>
            /\ Mutations(i) = <<>>
            /\ Sends(i) \in {<<>>, <<SendCall(ProvideValidUser, "", "")>>}
            /\ (pc[i] = "done" => Len(Sends(i)) = 1)

C6_Witness ==
    \E i, j \in Invs :
        /\ pc[i] = "done" /\ arg[i].kind = "null"
        /\ Sends(i) = <<SendCall(ProvideValidUser, "", "")>>
        /\ binding \in guildRoles
        /\ pc[j] = "done" /\ Passed(j)

\* C7: with a target supplied and no binding in the store, exec issues no
\* add/remove and no role fetch, and its reply is the 'not set up' message.
C7_NoBinding ==
    \A i \in Invs :
        (pc[i] # "idle" /\ Truthy(arg[i]) /\ binding = NoData) =>
            /\ Mutations(i) = <<>>
            /\ Fetches(i) = <<>>
            /\ Sends(i) \in {<<>>, <<SendCall(NotSetup, "", "")>>}
            /\ (pc[i] = "done" => Len(Sends(i)) = 1)

C7_Witness ==
    \E i, j \in Invs :
        /\ pc[i] = "done" /\ arg[i].kind = "member" /\ binding = NoData
        /\ Sends(i) = <<SendCall(NotSetup, "", "")>>
        /\ pc[j] = "done" /\ arg[j].kind = "string"
        /\ Sends(j) = <<SendCall(NotSetup, "", "")>>

\* C8: with a target supplied and a binding whose role id is no role of the
\* guild, exec issues no add/remove and its reply is the 'role is not
\* present' message.
C8_RoleGone ==
    \A i \in Invs :
        (pc[i] # "idle" /\ Truthy(arg[i]) /\ binding # NoData /\ binding \notin guildRoles) =>
            /\ Mutations(i) = <<>>
            /\ Sends(i) \in {<<>>, <<SendCall(NotPresent, "", "")>>}
            /\ (pc[i] = "done" => Len(Sends(i)) = 1)

C8_Witness ==
    \E i \in Invs :
        /\ pc[i] = "done" /\ arg[i].kind = "member"
        /\ binding # NoData /\ binding \notin guildRoles
        /\ \A k \in 1..Len(log[i]) : log[i][k].op = "fetch" => log[i][k].role = binding
        /\ Fetches(i) # <<>>
        /\ Sends(i) = <<SendCall(NotPresent, "", "")>>

\* The reply of the first check that fails, "" when all three pass.
FirstFailure(i) ==
    IF ~Truthy(arg[i]) THEN ProvideValidUser
    ELSE IF binding = NoData THEN NotSetup
    ELSE IF role[i] = NullRole THEN NotPresent
    ELSE ""

C10_FailuresPropagate ==
    \A i \in Invs :
        (failed[i] \cap {"fetch", "add", "remove"} # {}) =>
            /\ Sends(i) = <<>>
            /\ pc[i] = "rejected"

\* C10, amended: a failure of roles.add or of roles.remove is not caught:
\* exec rejects and sends no reply.  A failure of the role fetch is caught
\* by exec (.catch(() => null)): the role counts as absent, exec issues no
\* add/remove, sends the 'role is not present' reply and returns once that
\* reply is sent.
C10_MutationFailurePropagates ==
    \A i \in Invs :
        /\ (failed[i] \cap {"add", "remove"} # {}) =>
               /\ pc[i] = "rejected"
               /\ Sends(i) = <<>>
               /\ failed[i] \in {{"add"}, {"remove"}}
               /\ log[i][Len(log[i])].op \in failed[i]
        /\ ("fetch" \in failed[i]) =>
               /\ role[i] = NullRole
               /\ Mutations(i) = <<>>
               /\ Sends(i) = <<SendCall(NotPresent, "", "")>>
               /\ pc[i] \in {"send", "done", "rejected"}
               /\ (pc[i] = "rejected" <=> "send" \in failed[i])

C10_Witness ==
    \E i, j \in Invs :
        /\ pc[i] = "rejected" /\ failed[i] = {"remove"}
        /\ pc[j] = "done" /\ failed[j] = {"fetch"} /\ binding \in guildRoles

IsGetRole(c) == c.op = "getRole"

\* C11 as stated: every failure of an invocation is reported to the user by
\* a reply.
C11_FailuresReplied ==
    \A i \in Invs :
        (pc[i] \in {"done", "rejected"} /\ failed[i] # {}) => Sends(i) # <<>>

\* C11, amended: exec never retries: in one invocation getRole, the role
\* fetch, add/remove and send are each called at most once, and a call that
\* rejects is the last call of the invocation.  A failed precondition and a
\* failed role fetch (which exec catches) end the invocation with a reply;
\* a rejection of getRole, of add/remove or of send, and the exception of
\* line 61, end it by rejecting exec, with no reply for the failure.
C11_NoRetry ==
    \A i \in Invs :
        /\ Len(SelectSeq(log[i], IsGetRole)) <= 1
        /\ Len(Fetches(i)) <= 1
        /\ Len(Mutations(i)) <= 1
        /\ Len(Sends(i)) <= 1
        /\ (pc[i] = "rejected") <=>
               (failed[i] \cap {"getRole", "add", "remove", "send", "TypeError"} # {})
        /\ (pc[i] = "rejected" /\ "TypeError" \notin failed[i]) =>
               log[i][Len(log[i])].op \in failed[i]
        /\ (failed[i] \cap {"getRole", "add", "remove", "TypeError"} # {}) =>
               Sends(i) = <<>>
        /\ (pc[i] = "done" /\ FirstFailure(i) # "") =>
               Sends(i) = <<SendCall(FirstFailure(i), "", "")>>

C11_Witness ==
    \E i, j \in Invs :
        /\ pc[i] = "rejected" /\ failed[i] = {"add"}
        /\ Len(Mutations(i)) = 1 /\ Sends(i) = <<>>
        /\ pc[j] = "done" /\ failed[j] = {"fetch"} /\ Len(Fetches(j)) = 1

\* C12: no step of any invocation writes the role-binding store (it is only
\* read, by getRole) or the guild's roles, and the only role membership a
\* step changes is that of the bound role for the target member of the
\* invocation whose add/remove resolves: the member's other roles and the
\* roles of every other member stay as they are.
C12_Frame ==
    [][ /\ binding' = binding
        /\ guildRoles' = guildRoles
        /\ \A i \in Invs : \A k \in 1..Len(log'[i]) :
               log'[i][k].op \in {"getRole", "fetch", "add", "remove", "send"}
        /\ \A m \in Members :
               memberRoles'[m] # memberRoles[m] =>
                   /\ SymDiff(memberRoles'[m], memberRoles[m]) = {binding}
                   /\ \E i \in Invs :
                          /\ pc[i] = "mutate" /\ pc'[i] = "send"
                          /\ arg[i] = [kind |-> "member", val |-> m]
      ]_vars

C12_Witness ==
    \E i \in Invs :
        /\ pc[i] = "done" /\ Passed(i)
        /\ arg[i].val = "102" /\ binding = "r1"
        /\ pre[i]["102"] = {"r2"} /\ memberRoles["102"] = {"r1", "r2"}
        /\ memberRoles["101"] = {"r2"} /\ pre[i]["101"] = {"r2"}

(***************************************************************************)
(* Component: the base class of the interactive components.                *)
(***************************************************************************)

\* Bound: the calls of exec on one instance.
MaxExecCalls == 2

\* The classes an instance may be of: the base class, a subclass without an
\* exec of its own, and a subclass that defines exec.
CompClasses == {"Component", "ConfirmButton", "RoleMenu"}
OverridesExec(cls) == cls = "RoleMenu"

\* The values options.enabled and options.disableAfterUse may have.
FlagValues == {"true", "false", "undefined"}
Interactions == {"button", "selectMenu", "modalSubmit"}

\* The constructor: without an options argument both flags take the default.
ComponentNew(cls, given, e, d) ==
    [cls |-> cls,
     enabled |-> IF given THEN e ELSE "true",
     disableAfterUse |-> IF given THEN d ELSE "false"]

CompInstances ==
    {ComponentNew(c, g, e, d) :
        c \in CompClasses, g \in BOOLEAN, e \in FlagValues, d \in FlagValues}

\* Component.exec of the base class: throws inside an async function, so
\* the promise it returns rejects with the error.
BaseExecOnlyWhenEnabled(inst, interaction) ==
    IF inst.enabled = "true"
    THEN [interaction |-> interaction, status |-> "rejected",
          error |-> <<"NOT_IMPLEMENTED", inst.cls, "exec">>]
    ELSE [interaction |-> interaction, status |-> "resolved", error |-> <<>>]
BaseExec(inst, interaction) ==
    [interaction |-> interaction, status |-> "rejected",
     error |-> <<"NOT_IMPLEMENTED", inst.cls, "exec">>]

\* exec as dispatched on the instance: the subclass's own, if it has one.
CompExecResult(inst, interaction) ==
    IF OverridesExec(inst.cls)
    THEN [interaction |-> interaction, status |-> "resolved", error |-> <<>>]
    ELSE BaseExec(inst, interaction)

CompInit ==
    /\ compInst \in CompInstances
    /\ compCalls = <<>>
    /\ StaffIdle
    /\ ReadyIdle
    /\ CmIdle
    /\ HandlerIdle
    /\ InhIdle
    /\ ArgIdle
    /\ UnionIdle
    /\ ChIdle
    /\ CuIdle
    /\ TkIdle
    /\ CpIdle

CompExec(interaction) ==
    /\ Len(compCalls) < MaxExecCalls
    /\ compCalls' = Append(compCalls, CompExecResult(compInst, interaction))
    /\ UNCHANGED compInst
    /\ UNCHANGED notComp

CompNext == \E interaction \in Interactions : CompExec(interaction)

CompSpec == CompInit /\ [][CompNext]_vars

\* C13: exec on an instance of a class that does not define exec rejects with
\* a NOT_IMPLEMENTED error made from the instance's own class name and the
\* method name 'exec', for every interaction and every value of the flags.
C13_NotImplemented ==
    ~OverridesExec(compInst.cls) =>
        \A k \in 1..Len(compCalls) :
            /\ compCalls[k].status = "rejected"
            /\ compCalls[k].error = <<"NOT_IMPLEMENTED", compInst.cls, "exec">>

C13_Witness ==
    /\ compInst = [cls |-> "ConfirmButton", enabled |-> "false",
                   disableAfterUse |-> "undefined"]
    /\ Len(compCalls) = 2
    /\ compCalls[1].interaction = "modalSubmit"
    /\ compCalls[2].status = "rejected"

(***************************************************************************)
(* ReadyListener.                                                          *)
(***************************************************************************)

\* Bound: the 'ready' events delivered to the listener.
MaxReady == 3

ReadyClients ==
    [tag : {"Aware#0001", "Test#0002"}, token : {"token-a", "token-b"}]

\* The calls exec makes, in order: the webhook send (not awaited) and the
\* log write.
ReadyExecCallsLogFirst(client) ==
    << [op |-> "logger.info", content |-> <<"Logged in as", client.tag>>],
       [op |-> "webhook.send", content |-> <<client.tag, client.token>>] >>
ReadyExecCalls(client) ==
    << [op |-> "webhook.send", content |-> <<client.tag, client.token>>],
       [op |-> "logger.info", content |-> <<"Logged in as", client.tag>>] >>

ExecsAfterSettleAwaited(execs, k, ok) ==
    [execs EXCEPT ![k] = IF ok THEN @ ELSE "rejected"]

\* What the settling of send k does to the calls of exec: the promise of
\* web.send is dropped at line 94, so nothing.
ExecsAfterSettle(execs, k, ok) == execs

ReadyInit ==
    /\ readyClient \in ReadyClients
    /\ readyLog = <<>>
    /\ readySends = <<>>
    /\ readyExecs = <<>>
    /\ readyUnhandled = {}
    /\ StaffIdle
    /\ CompIdle
    /\ CmIdle
    /\ HandlerIdle
    /\ InhIdle
    /\ ArgIdle
    /\ UnionIdle
    /\ ChIdle
    /\ CuIdle
    /\ TkIdle
    /\ CpIdle

\* A 'ready' event: exec runs to its end without waiting for anything.
ReadyExec ==
    /\ Len(readySends) < MaxReady
    /\ readyLog' = readyLog \o ReadyExecCalls(readyClient)
    /\ readySends' = Append(readySends, "pending")
    /\ readyExecs' = Append(readyExecs, "resolved")
    /\ UNCHANGED <<readyClient, readyUnhandled>>
    /\ UNCHANGED notReady

\* A webhook send settles, some time after exec: nothing of the listener
\* runs on it.
WebhookSettle(k, ok) ==
    /\ k \in 1..Len(readySends)
    /\ readySends[k] = "pending"
    /\ readySends' = [readySends EXCEPT ![k] = IF ok THEN "sent" ELSE "failed"]
    /\ readyExecs' = ExecsAfterSettle(readyExecs, k, ok)
    /\ readyUnhandled' = IF ok THEN readyUnhandled ELSE readyUnhandled \cup {k}
    /\ UNCHANGED <<readyClient, readyLog>>
    /\ UNCHANGED notReady

ReadyNext ==
    \/ ReadyExec
    \/ \E k \in 1..MaxReady, ok \in BOOLEAN : WebhookSettle(k, ok)

ReadySpec == ReadyInit /\ [][ReadyNext]_vars

\* C14: for each 'ready' event exec issues exactly one webhook send and then
\* makes exactly one logger.info write, in that order; nothing is repeated
\* or retried, whatever becomes of the sends.
C14_OneSendThenOneLog ==
    /\ Len(readyLog) = 2 * Len(readySends)
    /\ \A k \in 1..Len(readySends) :
           /\ readyLog[2 * k - 1] =
                  [op |-> "webhook.send",
                   content |-> <<readyClient.tag, readyClient.token>>]
           /\ readyLog[2 * k].op = "logger.info"

C14_Witness ==
    /\ Len(readySends) = 2
    /\ readySends[1] = "failed"
    /\ readySends[2] = "sent"
    /\ Len(readyLog) = 4

\* C24: exec does not wait for the webhook send: every call of exec has made
\* its log write and has resolved while its send may still be pending, and
\* stays resolved whether the send then succeeds or fails; a failed send is
\* caught by nothing of exec and is left as an unhandled rejection.
C24_FireAndForget ==
    /\ Len(readyExecs) = Len(readySends)
    /\ \A k \in 1..Len(readySends) :
           /\ readyExecs[k] = "resolved"
           /\ readyLog[2 * k].op = "logger.info"
           /\ k \in readyUnhandled <=> readySends[k] = "failed"

\* Three calls of exec have resolved and logged: the send of one has failed,
\* of one has succeeded and of one is still pending.
C24_Witness ==
    /\ readySends = <<"failed", "sent", "pending">>
    /\ readyExecs = <<"resolved", "resolved", "resolved">>
    /\ Len(readyLog) = 6
    /\ readyUnhandled = {1}

(***************************************************************************)
(* ContextMenuCommandHandler.handle.                                       *)
(***************************************************************************)

\* The client's owners and super users, and the users that may interact.
ClientOwnerID == {"u1"}
ClientSuperUserID == {"u2"}
Users == {"u1", "u2", "u3"}

\* AkairoClient.isOwner / isSuperUser, with array-valued ids.
isOwner(user) == user \in ClientOwnerID
isSuperUser(user) == user \in ClientSuperUserID \/ user \in ClientOwnerID

\* The command names an interaction may carry, and the commands that may be
\* loaded under a name: its two restrictions and whether its exec throws.
CommandNames == {"ban", "info"}
CmCommandSet ==
    [ownerOnly : BOOLEAN, superUserOnly : BOOLEAN, throws : BOOLEAN]

CmEvent(name, detail) == [name |-> name, detail |-> detail]

\* Lines 64-69: the BLOCKED events handle emits for a command and a user.
BlockedEvents(command, user) ==
    (IF command.ownerOnly /\ ~isOwner(user)
        THEN <<CmEvent("blocked", "owner")>> ELSE <<>>)
    \o (IF command.superUserOnly /\ ~isSuperUser(user)
        THEN <<CmEvent("blocked", "superUser")>> ELSE <<>>)

ExecThenStarted == <<CmEvent("exec", ""), CmEvent("started", "")>>

\* Lines 72-73: STARTED is emitted, then command.exec is called (the call is
\* kept in the log of events as "exec").
StartedAndExec == <<CmEvent("started", ""), CmEvent("exec", "")>>

CmInit ==
    /\ \E names \in SUBSET CommandNames : cmCommands \in [names -> CmCommandSet]
    /\ cmErrListener \in BOOLEAN
    /\ cmPc = "idle"
    /\ cmInter = [commandName |-> "", user |-> ""]
    /\ cmEvents = <<>>
    /\ cmExecs = 0
    /\ cmRet = "none"
    /\ StaffIdle
    /\ CompIdle
    /\ ReadyIdle
    /\ HandlerIdle
    /\ InhIdle
    /\ ArgIdle
    /\ UnionIdle
    /\ ChIdle
    /\ CuIdle
    /\ TkIdle
    /\ CpIdle

\* handle(interaction), up to its return or to the await of command.exec.
HandleStart(inter) ==
    /\ cmPc \in {"idle", "returned", "rejected"}
    /\ cmInter' = inter
    /\ IF inter.commandName \notin DOMAIN cmCommands
       THEN /\ cmEvents' = <<CmEvent("notFound", "")>>
            /\ cmExecs' = 0
            /\ cmRet' = "false"
            /\ cmPc' = "returned"
       ELSE /\ cmEvents' = BlockedEvents(cmCommands[inter.commandName], inter.user)
                               \o StartedAndExec
            /\ cmExecs' = 1
            /\ cmRet' = "none"
            /\ cmPc' = "exec"
    /\ UNCHANGED <<cmCommands, cmErrListener>>
    /\ UNCHANGED notCm

\* command.exec returns: FINISHED is emitted and handle returns true.
ExecReturn ==
    /\ cmPc = "exec"
    /\ ~cmCommands[cmInter.commandName].throws
    /\ cmEvents' = Append(cmEvents, CmEvent("finished", "ret"))
    /\ cmRet' = "true"
    /\ cmPc' = "returned"
    /\ UNCHANGED <<cmCommands, cmErrListener, cmInter, cmExecs>>
    /\ UNCHANGED notCm

\* command.exec throws: emitError emits ERROR when a listener is there and
\* handle returns false; without a listener the error is thrown again.
ExecThrow ==
    /\ cmPc = "exec"
    /\ cmCommands[cmInter.commandName].throws
    /\ IF cmErrListener
       THEN /\ cmEvents' = Append(cmEvents, CmEvent("error", "err"))
            /\ cmRet' = "false"
            /\ cmPc' = "returned"
       ELSE /\ cmEvents' = cmEvents
            /\ cmRet' = "err"
            /\ cmPc' = "rejected"
    /\ UNCHANGED <<cmCommands, cmErrListener, cmInter, cmExecs>>
    /\ UNCHANGED notCm

CmNext ==
    \/ \E n \in CommandNames \cup {"kick"}, u \in Users :
           HandleStart([commandName |-> n, user |-> u])
    \/ ExecReturn
    \/ ExecThrow

CmSpec == CmInit /\ [][CmNext]_vars

EventNames(events) == {events[k].name : k \in 1..Len(events)}

\* The command the interaction names is restricted to users the interacting
\* user is not one of.
NotAllowed ==
    /\ cmInter.commandName \in DOMAIN cmCommands
    /\ \/ cmCommands[cmInter.commandName].ownerOnly /\ ~isOwner(cmInter.user)
       \/ cmCommands[cmInter.commandName].superUserOnly /\ ~isSuperUser(cmInter.user)

\* C15: for an interaction of a user who is not an owner on an ownerOnly
\* command (not a super user on a superUserOnly command), handle emits
\* BLOCKED, does not call the command's exec and emits neither STARTED nor
\* FINISHED.
C15_BlockedNotExecuted ==
    (cmPc # "idle" /\ NotAllowed) =>
        /\ "blocked" \in EventNames(cmEvents)
        /\ cmExecs = 0
        /\ EventNames(cmEvents) \cap {"started", "finished"} = {}

\* The names of the events of a handle call, without the BLOCKED ones.
CmTrace ==
    LET names == [k \in 1..Len(cmEvents) |-> cmEvents[k].name]
    IN SelectSeq(names, LAMBDA n : n # "blocked")

\* C25: for a command found by name handle emits STARTED, then calls exec;
\* when exec returns it emits FINISHED with the return value and returns
\* true; when exec throws it emits no FINISHED and, with an ERROR listener,
\* emits ERROR and returns false, or without one rejects with the error.
\* For an unknown name it emits NOT_FOUND, calls no exec and returns false.
C25_HandleOrder ==
    cmPc # "idle" =>
        IF cmInter.commandName \notin DOMAIN cmCommands
        THEN /\ cmEvents = <<CmEvent("notFound", "")>>
             /\ cmExecs = 0
             /\ cmPc = "returned" /\ cmRet = "false"
        ELSE /\ cmExecs = 1
             /\ CASE cmPc = "exec" ->
                        CmTrace = <<"started", "exec">> /\ cmRet = "none"
                  [] cmPc = "returned" /\ ~cmCommands[cmInter.commandName].throws ->
                        /\ CmTrace = <<"started", "exec", "finished">>
                        /\ cmEvents[Len(cmEvents)] = CmEvent("finished", "ret")
                        /\ cmRet = "true"
                  [] cmPc = "returned" /\ cmCommands[cmInter.commandName].throws ->
                        /\ cmErrListener
                        /\ CmTrace = <<"started", "exec", "error">>
                        /\ cmRet = "false"
                  [] OTHER ->
                        /\ cmPc = "rejected"
                        /\ cmCommands[cmInter.commandName].throws
                        /\ ~cmErrListener
                        /\ CmTrace = <<"started", "exec">>
                        /\ cmRet = "err"

\* handle rejected with the error of exec: no ERROR listener is registered.
C25_Witness ==
    /\ cmPc = "rejected"
    /\ cmRet = "err"
    /\ CmTrace = <<"started", "exec">>
    /\ ~cmErrListener

(***************************************************************************)
(* AkairoHandler: load, remove and removeAll over handler.modules.         *)
(***************************************************************************)

\* The ids of the modules that can be loaded, the file each can be loaded
\* from, and the categories a module may name.
ModuleIds == {"a", "b", "c"}
Files == [a |-> "/modules/a.js", b |-> "/modules/b.js", c |-> "/modules/c.js"]
CategoryIds == {"default", "mod"}

\* register(mod, null) leaves the filepath of a class-loaded module null.
NullPath == "null"
PathTruthy(path) == path # NullPath /\ path # ""

\* What load is given: a class, the path of a module file, or a path whose
\* export is not a module of the handled class.
Things == {"class", "file", "other"}

HandlerResult(op, id, result) == [op |-> op, id |-> id, result |-> result]

\* register: the module enters modules and its category, which is created
\* when it is not there yet.
register(id, filepath, categoryID) ==
    /\ hModules' = [i \in DOMAIN hModules \cup {id} |->
                       IF i = id
                       THEN [filepath |-> filepath, categoryID |-> categoryID]
                       ELSE hModules[i]]
    /\ hCategories' = [c \in DOMAIN hCategories \cup {categoryID} |->
                          IF c = categoryID
                          THEN (IF c \in DOMAIN hCategories
                                   THEN hCategories[c] ELSE {}) \cup {id}
                          ELSE hCategories[c]]

\* deregister, applied to a set of modules: each leaves modules and its
\* category.
deregisterAll(ids) ==
    /\ hModules' = [i \in DOMAIN hModules \ ids |-> hModules[i]]
    /\ hCategories' = [c \in DOMAIN hCategories |-> hCategories[c] \ ids]

HandlerInit ==
    /\ hModules = [i \in {} |-> i]
    /\ hCategories = [c \in {} |-> c]
    /\ hLast = HandlerResult("none", "", "none")
    /\ StaffIdle
    /\ CompIdle
    /\ ReadyIdle
    /\ CmIdle
    /\ InhIdle
    /\ ArgIdle
    /\ UnionIdle
    /\ ChIdle
    /\ CuIdle
    /\ TkIdle
    /\ CpIdle

\* load(thing) for a thing that exports the module id in category
\* categoryID.
Load(thing, id, categoryID) ==
    /\ IF thing = "other"
       THEN /\ hLast' = HandlerResult("load", id, "undefined")
            /\ UNCHANGED <<hModules, hCategories>>
       ELSE IF id \in DOMAIN hModules
       THEN /\ hLast' = HandlerResult("load", id, "ALREADY_LOADED")
            /\ UNCHANGED <<hModules, hCategories>>
       ELSE /\ register(id, IF thing = "class" THEN NullPath ELSE Files[id],
                        categoryID)
            /\ hLast' = HandlerResult("load", id, "loaded")
    /\ UNCHANGED notHandler

\* remove(id).
Remove(id) ==
    /\ IF id \notin DOMAIN hModules
       THEN /\ hLast' = HandlerResult("remove", id, "MODULE_NOT_FOUND")
            /\ UNCHANGED <<hModules, hCategories>>
       ELSE /\ deregisterAll({id})
            /\ hLast' = HandlerResult("remove", id, "removed")
    /\ UNCHANGED notHandler

\* The modules removeAll calls remove on.
RemoveAllTargets == {i \in DOMAIN hModules : PathTruthy(hModules[i].filepath)}

\* removeAll().
RemoveAll ==
    /\ deregisterAll(RemoveAllTargets)
    /\ hLast' = HandlerResult("removeAll", "", "returned")
    /\ UNCHANGED notHandler

HandlerNext ==
    \/ \E thing \in Things, id \in ModuleIds, categoryID \in CategoryIds :
           Load(thing, id, categoryID)
    \/ \E id \in ModuleIds : Remove(id)
    \/ RemoveAll

HandlerSpec == HandlerInit /\ [][HandlerNext]_vars

\* C16: after removeAll returns, handler.modules is empty, whatever modules
\* were loaded before and however they were loaded.
C16_RemoveAllEmpties ==
    hLast.op = "removeAll" => DOMAIN hModules = {}

(***************************************************************************)
(* InhibitorHandler.test.                                                  *)
(***************************************************************************)

\* The inhibitors that may be loaded.  Each has the type, priority and reason
\* of its options and a behaviour of its exec: it returns a truthy or a
\* falsy value, returns a promise that resolves to one, or throws.
InhIds == {1, 2, 3}
InhTypes == {"all", "pre", "post"}
InhPriorities == {0, 1}
InhBehaviours == {"true", "false", "asyncTrue", "asyncFalse", "throws"}
InhReason == [i \in InhIds |-> <<"spam", "blacklist", "cooldown">>[i]]
InhibitorSet == [type : InhTypes, priority : InhPriorities, behaviour : InhBehaviours]

InhReturn(kind, val) == [kind |-> kind, val |-> val]

\* modules.filter(i => i.type === type)
OfType(type) == {i \in DOMAIN inhModules : inhModules[i].type = type}

\* The inhibitors of the tested type whose exec gave a truthy value.
Inhibited(type) ==
    {i \in OfType(type) : inhModules[i].behaviour \in {"true", "asyncTrue"}}

\* The inhibitors of the tested type whose exec threw.
Threw(type) == {i \in OfType(type) : inhModules[i].behaviour = "throws"}

SortedFirstAscending(ids) ==
    CHOOSE i \in ids : \A j \in ids :
        \/ inhModules[j].priority > inhModules[i].priority
        \/ inhModules[j].priority = inhModules[i].priority /\ i <= j

\* sort((a, b) => b.priority - a.priority)[0]: the sort is stable, so the
\* first element is the earliest inhibitor among those of highest priority.
SortedFirst(ids) ==
    CHOOSE i \in ids : \A j \in ids :
        \/ inhModules[j].priority < inhModules[i].priority
        \/ inhModules[j].priority = inhModules[i].priority /\ i <= j

\* What test returns once every promise has resolved.
TestResult(type) ==
    IF Inhibited(type) = {}
    THEN InhReturn("null", "")
    ELSE InhReturn("reason", InhReason[SortedFirst(Inhibited(type))])

InhInit ==
    /\ \E n \in {0} \cup InhIds : inhModules \in [1..n -> InhibitorSet]
    /\ inhPc = "idle"
    /\ inhType = ""
    /\ inhExecuted = {}
    /\ inhPending = {}
    /\ inhRet = InhReturn("none", "")
    /\ StaffIdle
    /\ CompIdle
    /\ ReadyIdle
    /\ CmIdle
    /\ HandlerIdle
    /\ ArgIdle
    /\ UnionIdle
    /\ ChIdle
    /\ CuIdle
    /\ TkIdle
    /\ CpIdle

\* test(type, message, command) up to its return or to the await of
\* Promise.all: the loop calls exec of every inhibitor of the type.
TestStart(type) ==
    /\ inhPc \in {"idle", "returned", "rejected"}
    /\ inhType' = type
    /\ IF OfType(type) = {}
       THEN /\ inhExecuted' = {}
            /\ inhPending' = {}
            /\ inhRet' = InhReturn("null", "")
            /\ inhPc' = "returned"
       ELSE /\ inhExecuted' = OfType(type)
            /\ inhPending' = {i \in OfType(type) :
                                 inhModules[i].behaviour \in {"asyncTrue", "asyncFalse"}}
            /\ inhRet' = InhReturn("none", "")
            /\ inhPc' = "awaiting"
    /\ UNCHANGED inhModules
    /\ UNCHANGED notInh

\* The promise an inhibitor's exec returned resolves.
InhibitorSettle(i) ==
    /\ inhPc = "awaiting"
    /\ i \in inhPending
    /\ inhPending' = inhPending \ {i}
    /\ UNCHANGED <<inhModules, inhPc, inhType, inhExecuted, inhRet>>
    /\ UNCHANGED notInh

\* Promise.all resolves: test filters, sorts and returns.
TestReturn ==
    /\ inhPc = "awaiting"
    /\ inhPending = {}
    /\ Threw(inhType) = {}
    /\ inhRet' = TestResult(inhType)
    /\ inhPc' = "returned"
    /\ UNCHANGED <<inhModules, inhType, inhExecuted, inhPending>>
    /\ UNCHANGED notInh

\* Promise.all rejects as soon as one exec has thrown: test rejects.
TestReject ==
    /\ inhPc = "awaiting"
    /\ Threw(inhType) # {}
    /\ inhRet' = InhReturn("error", "")
    /\ inhPc' = "rejected"
    /\ UNCHANGED <<inhModules, inhType, inhExecuted, inhPending>>
    /\ UNCHANGED notInh

InhNext ==
    \/ \E type \in InhTypes : TestStart(type)
    \/ \E i \in InhIds : InhibitorSettle(i)
    \/ TestReturn
    \/ TestReject

InhSpec == InhInit /\ [][InhNext]_vars

\* C17: when test returns, it returns null if and only if no inhibitor of
\* the tested type gave a truthy value; otherwise it returns the reason of
\* an inhibitor of highest priority among those of the type that blocked.
\* At no time has the exec of an inhibitor of another type been called, and
\* test ends without returning only when an exec of the type threw.
C17_TestResult ==
    /\ \A i \in inhExecuted : inhModules[i].type = inhType
    /\ inhPc = "returned" =>
        /\ inhRet.kind \in {"null", "reason"}
        /\ inhRet.kind = "null" <=> Inhibited(inhType) = {}
        /\ inhRet.kind = "reason" =>
               \E i \in Inhibited(inhType) :
                   /\ inhRet.val = InhReason[i]
                   /\ \A j \in Inhibited(inhType) :
                          inhModules[j].priority <= inhModules[i].priority
    /\ inhPc = "rejected" => Threw(inhType) # {}

\* A test returned a reason although inhibitors of the type, of lower and of
\* higher priority, blocked and an inhibitor of another type that would
\* have blocked is loaded.
C17_Witness ==
    /\ inhPc = "returned"
    /\ inhRet.kind = "reason"
    /\ \E i, j \in Inhibited(inhType) :
           inhModules[i].priority < inhModules[j].priority
    /\ \E i \in DOMAIN inhModules :
           /\ inhModules[i].type # inhType
           /\ inhModules[i].behaviour \in {"true", "asyncTrue"}

(***************************************************************************)
(* Argument.process and Argument.collect, for an argument of the built-in  *)
(* 'member' type.                                                          *)
(***************************************************************************)

\* The largest `retries` option an argument is given, and the number of
\* replies after which no further reply is delivered to a prompt.
MaxRetries == 2
MaxReplies == 4

\* Number.POSITIVE_INFINITY, the default of the `limit` option.
Infinity == 1000
\* The default of the `time` option.
Time == 30000

\* An option that is not set.
ArgNull == "null"

OtherwiseText == "Invalid member."
ModifiedText == "Try again."
DefaultValue == "author"

\* The phrases process is called with and the contents of the replies to a
\* prompt.
ArgPhrases == {"", "101", "zzz"}
ReplyContents == {"101", "zzz", "cancel", "Cancel", "stop", "!ping"}

CancelWord == "cancel"
StopWord == "stop"

\* String.prototype.toLowerCase, on the texts of the model.
toLowerCase(text) == IF text = "Cancel" THEN "cancel" ELSE text

\* handler.parseCommand(input).command: whether the reply is a command.
LooksLikeCommand(content) == content = "!ping"

\* The options of an argument.  The prompt options are those of the prompt
\* object, so they only vary when a prompt is set.
ArgConfigs ==
    {c \in [otherwise : {ArgNull, "", OtherwiseText},
            modifyOtherwise : {ArgNull, "toEmpty", "toText"},
            default : {ArgNull, DefaultValue},
            prompt : BOOLEAN,
            optional : BOOLEAN,
            infinite : BOOLEAN,
            match : {"phrase", "separate"},
            retries : 0..MaxRetries,
            limit : {1, 2, Infinity},
            breakout : BOOLEAN] :
        ~c.prompt => /\ ~c.optional
                     /\ ~c.infinite
                     /\ c.retries = 1
                     /\ c.limit = Infinity
                     /\ c.breakout}

ArgReturn(kind, val) == [kind |-> kind, val |-> val]
FlagCancel == ArgReturn("cancel", "")

\* collect: isInfinite and additionalRetry.
IsInfinite(cfg, commandInput) ==
    cfg.infinite \/ (cfg.match = "separate" /\ commandInput = "")
additionalRetry(commandInput) == IF commandInput # "" THEN 1 ELSE 0

\* doOtherwise: the text after modifyOtherwise, and what is sent.
ModifyOtherwise(cfg, text) ==
    IF cfg.modifyOtherwise = ArgNull THEN text
    ELSE IF cfg.modifyOtherwise = "toEmpty" THEN "" ELSE ModifiedText
OtherwiseSends(cfg) ==
    IF ModifyOtherwise(cfg, cfg.otherwise) # ""
    THEN <<ModifyOtherwise(cfg, cfg.otherwise)>> ELSE <<>>

\* promptOne: the start or retry text sent before a reply is awaited.
PromptSends(retryCount, isInfinite, values) ==
    IF retryCount # 1 \/ ~isInfinite \/ values = <<>>
    THEN <<IF retryCount = 1 THEN "start" ELSE "retry">>
    ELSE <<>>

OnFailurePromptFirst(cfg) ==
    IF cfg.prompt THEN "collect"
    ELSE IF cfg.otherwise # ArgNull THEN "otherwise"
    ELSE IF cfg.default = ArgNull THEN "failure" ELSE "default"

\* process, lines 428-438: what is done about a phrase that failed to cast.
OnFailure(cfg) ==
    IF cfg.otherwise # ArgNull THEN "otherwise"
    ELSE IF cfg.prompt THEN "collect"
    ELSE IF cfg.default = ArgNull THEN "failure" ELSE "default"

\* process: the branch taken for a phrase.
ProcessBranch(cfg, phrase) ==
    IF phrase = "" /\ cfg.optional
    THEN (IF cfg.otherwise # ArgNull THEN "otherwise" ELSE "default")
    ELSE IF isFailure(cast("member", phrase)) THEN OnFailure(cfg)
    ELSE "value"

NextRetryCountNoReset(kind, retryCount) == retryCount + 1

\* promptOne: the retryCount of the next promptOne call.
NextRetryCount(kind, retryCount) ==
    IF kind = "more" THEN 1 ELSE retryCount + 1

\* promptOne, lines 314-357: what a reply leads to.
ReplyKind(cfg, isInfinite, values, retryCount, content) ==
    IF cfg.breakout /\ LooksLikeCommand(content) THEN "breakout"
    ELSE IF toLowerCase(content) = toLowerCase(CancelWord) THEN "cancel"
    ELSE IF isInfinite /\ toLowerCase(content) = toLowerCase(StopWord)
         THEN (IF values = <<>> THEN "stopEmpty" ELSE "stop")
    ELSE IF isFailure(cast("member", content))
         THEN (IF retryCount <= cfg.retries THEN "retry" ELSE "ended")
    ELSE IF isInfinite
         THEN (IF Len(values) + 1 < cfg.limit THEN "more" ELSE "limit")
    ELSE "value"
ArgInit ==
    /\ argCfg \in ArgConfigs
    /\ argPc = "idle"
    /\ argPhrase = ""
    /\ argRetryCount = 0
    /\ argValues = <<>>
    /\ argSent = <<>>
    /\ argRet = ArgReturn("none", "")
    /\ argCollects = 0
    /\ argReplies = 0
    /\ argOnlyFailures = TRUE
    /\ argStreak = 0
    /\ argEnd = "none"
    /\ StaffIdle
    /\ CompIdle
    /\ ReadyIdle
    /\ CmIdle
    /\ HandlerIdle
    /\ InhIdle
    /\ UnionIdle
    /\ ChIdle
    /\ CuIdle
    /\ TkIdle
    /\ CpIdle

\* process(message, phrase), up to its return or, when it calls collect, to
\* the await of the first reply.
Process(phrase) ==
    /\ argPc \in {"idle", "returned"}
    /\ argPhrase' = phrase
    /\ argValues' = <<>>
    /\ argReplies' = 0
    /\ argOnlyFailures' = TRUE
    /\ argStreak' = 0
    /\ argEnd' = "none"
    /\ LET branch == ProcessBranch(argCfg, phrase)
       IN IF branch = "collect"
          THEN /\ argPc' = "awaiting"
               /\ argCollects' = 1
               /\ argRetryCount' = 1 + additionalRetry(phrase)
               /\ argSent' = PromptSends(1 + additionalRetry(phrase),
                                         IsInfinite(argCfg, phrase), <<>>)
               /\ argRet' = ArgReturn("none", "")
          ELSE /\ argPc' = "returned"
               /\ argCollects' = 0
               /\ argRetryCount' = 0
               /\ argSent' = IF branch = "otherwise"
                                THEN OtherwiseSends(argCfg) ELSE <<>>
               /\ argRet' = CASE branch = "otherwise" -> FlagCancel
                              [] branch = "default" -> ArgReturn("default", argCfg.default)
                              [] branch = "failure" -> ArgReturn("failure", ArgNull)
                              [] OTHER -> ArgReturn("value", cast("member", phrase).val)
    /\ UNCHANGED argCfg
    /\ UNCHANGED notArg

\* awaitMessages resolves with a reply of the author: the rest of promptOne,
\* up to the await of the next reply or to the return of collect and process.
Reply(content) ==
    /\ argPc = "awaiting"
    /\ argReplies < MaxReplies
    /\ LET isInfinite == IsInfinite(argCfg, argPhrase)
           kind == ReplyKind(argCfg, isInfinite, argValues, argRetryCount, content)
           values == IF kind \in {"more", "limit"}
                        THEN Append(argValues, cast("member", content).val)
                        ELSE argValues
           retryCount == NextRetryCount(kind, argRetryCount)
       IN /\ argReplies' = argReplies + 1
          /\ argOnlyFailures' = (argOnlyFailures /\ kind \in {"retry", "ended"})
          /\ argStreak' = IF kind \in {"more", "limit", "value"}
                             THEN 0 ELSE argStreak + 1
          /\ argValues' = values
          /\ IF kind \in {"stopEmpty", "retry", "more"}
             THEN /\ argPc' = "awaiting"
                  /\ argRetryCount' = retryCount
                  /\ argSent' = argSent \o PromptSends(retryCount, isInfinite, values)
                  /\ UNCHANGED <<argRet, argEnd>>
             ELSE /\ argPc' = "returned"
                  /\ argEnd' = kind
                  /\ argSent' = IF kind \in {"cancel", "ended"}
                                   THEN Append(argSent, kind) ELSE argSent
                  /\ argRet' = CASE kind = "breakout" -> ArgReturn("retry", content)
                                 [] kind \in {"cancel", "ended"} -> FlagCancel
                                 [] kind \in {"stop", "limit"} -> ArgReturn("values", values)
                                 [] OTHER -> ArgReturn("value", cast("member", content).val)
                  /\ UNCHANGED argRetryCount
    /\ UNCHANGED <<argCfg, argPhrase, argCollects>>
    /\ UNCHANGED notArg

\* awaitMessages rejects after `time`: the timeout text is sent and collect
\* returns Flag.timeout(time).
Timeout ==
    /\ argPc = "awaiting"
    /\ argPc' = "returned"
    /\ argEnd' = "timeout"
    /\ argOnlyFailures' = FALSE
    /\ argSent' = Append(argSent, "timeout")
    /\ argRet' = ArgReturn("timeout", Time)
    /\ UNCHANGED <<argCfg, argPhrase, argRetryCount, argValues, argCollects,
                   argReplies, argStreak>>
    /\ UNCHANGED notArg

ArgNext ==
    \/ \E phrase \in ArgPhrases : Process(phrase)
    \/ \E content \in ReplyContents : Reply(content)
    \/ Timeout

ArgSpec == ArgInit /\ [][ArgNext]_vars

\* C18: in a prompt that is not infinite and has received nothing but replies
\* that fail to cast, collect awaits exactly retries + 1 replies when it was
\* started without command input and exactly retries replies when it was
\* started with a failed one; it then sends the 'ended' text and returns
\* Flag.cancel.
C18_ExactReplies ==
    (argCollects = 1 /\ ~IsInfinite(argCfg, argPhrase) /\ argOnlyFailures) =>
        LET n == IF argPhrase = "" THEN argCfg.retries + 1 ELSE argCfg.retries
        IN /\ argPc = "awaiting" => argReplies < n
           /\ argPc = "returned" =>
                  /\ argReplies = n
                  /\ argSent # <<>> /\ argSent[Len(argSent)] = "ended"
                  /\ argRet = FlagCancel

\* C19 as stated: an infinite prompt ends only on the stop word with at least
\* one value, the cancel word, a timeout, the retry limit or on reaching
\* limit values.
C19_EndsOnlyOnFive ==
    (argCollects = 1 /\ IsInfinite(argCfg, argPhrase) /\ argPc = "returned") =>
        argEnd \in {"stop", "cancel", "timeout", "ended", "limit"}

\* C19: in an infinite prompt the reply after a valid entry is awaited with
\* retryCount = 1, and in general with one more than the number of replies
\* in a row that added no value (plus one more while the failed command
\* input is the last entry), so the retries limit bounds the replies in a
\* row without a value.  The prompt ends only on the stop word with at
\* least one value, the cancel word, a timeout, a failed reply beyond the
\* retry limit, on reaching limit values, or on a reply that is a command
\* when the breakout option is on.
C19_ResetAndEnds ==
    (argCollects = 1 /\ IsInfinite(argCfg, argPhrase)) =>
        /\ argPc = "awaiting" =>
               argRetryCount =
                   1 + argStreak
                     + (IF argValues = <<>> THEN additionalRetry(argPhrase) ELSE 0)
        /\ argPc = "returned" =>
            /\ argEnd \in {"stop", "cancel", "timeout", "ended", "limit", "breakout"}
            /\ argEnd = "stop" => argValues # <<>>
            /\ argEnd = "limit" => Len(argValues) = argCfg.limit
            /\ argEnd = "ended" => argStreak > argCfg.retries - additionalRetry(argPhrase)
            /\ argEnd = "breakout" => argCfg.breakout

\* An infinite prompt took a valid entry and later hit the retry limit,
\* after more replies than the limit allows in a row.
C19_Witness ==
    /\ argCollects = 1
    /\ IsInfinite(argCfg, argPhrase)
    /\ argPc = "returned"
    /\ argEnd = "ended"
    /\ argCfg.retries >= 1
    /\ argValues # <<>>
    /\ argReplies > argCfg.retries + 1

\* C20: when the phrase fails to cast and otherwise is set, process sends
\* the otherwise text, as modifyOtherwise leaves it and unless it is empty,
\* and returns Flag.cancel; collect is not called and default is not
\* evaluated, whatever prompt and default are.
C20_OtherwiseOverrides ==
    (/\ argPc = "returned"
     /\ argCfg.otherwise # ArgNull
     /\ isFailure(cast("member", argPhrase))) =>
        /\ argRet = FlagCancel
        /\ argCollects = 0
        /\ argReplies = 0
        /\ LET text == IF argCfg.modifyOtherwise = ArgNull THEN argCfg.otherwise
                       ELSE IF argCfg.modifyOtherwise = "toEmpty" THEN ""
                       ELSE ModifiedText
           IN argSent = IF text = "" THEN <<>> ELSE <<text>>

\* process sent the otherwise text and cancelled for a phrase naming no
\* member although a prompt and a default are configured.
C20_Witness ==
    /\ argPc = "returned"
    /\ argPhrase = "zzz"
    /\ argCfg.otherwise = OtherwiseText
    /\ argCfg.prompt
    /\ argCfg.default # ArgNull
    /\ argSent = <<OtherwiseText>>
    /\ argRet = FlagCancel

(***************************************************************************)
(* Argument.union over type functions.                                     *)
(***************************************************************************)

\* What a type function may cast the phrase to: null, undefined, a
\* Flag.fail, a falsy value that is no failure, or another value.
CastKinds == {"null", "undefined", "fail", "zero", "member"}
UnionTypeIds == {1, 2, 3}
CastResult(kind, i) == [kind |-> kind, val |-> <<"t1", "t2", "t3">>[i]]

UnionInit ==
    /\ \E n \in {0} \cup UnionTypeIds, kinds \in [UnionTypeIds -> CastKinds] :
           unTypes = [i \in 1..n |-> CastResult(kinds[i], i)]
    /\ unPc = "idle"
    /\ unInvoked = <<>>
    /\ unRet = [kind |-> "none", val |-> ""]
    /\ StaffIdle
    /\ CompIdle
    /\ ReadyIdle
    /\ CmIdle
    /\ HandlerIdle
    /\ InhIdle
    /\ ArgIdle
    /\ ChIdle
    /\ CuIdle
    /\ TkIdle
    /\ CpIdle

\* The type function union returns is called with a phrase.
TypeFnCall ==
    /\ unPc \in {"idle", "returned"}
    /\ unPc' = "loop"
    /\ unInvoked' = <<>>
    /\ unRet' = [kind |-> "none", val |-> ""]
    /\ UNCHANGED unTypes
    /\ UNCHANGED notUnion

\* One turn of the loop: the next entry is cast with, and its result is
\* returned unless it is a failure.
TypeFnCast ==
    /\ unPc = "loop"
    /\ Len(unInvoked) < Len(unTypes)
    /\ LET entry == Len(unInvoked) + 1
           res == unTypes[entry]
       IN /\ unInvoked' = Append(unInvoked, entry)
          /\ IF ~isFailure(res)
             THEN unRet' = res /\ unPc' = "returned"
             ELSE UNCHANGED <<unRet, unPc>>
    /\ UNCHANGED unTypes
    /\ UNCHANGED notUnion

\* The loop has run out of entries: null is returned.
TypeFnNull ==
    /\ unPc = "loop"
    /\ Len(unInvoked) = Len(unTypes)
    /\ unRet' = NullArg
    /\ unPc' = "returned"
    /\ UNCHANGED <<unTypes, unInvoked>>
    /\ UNCHANGED notUnion

UnionNext == TypeFnCall \/ TypeFnCast \/ TypeFnNull

UnionSpec == UnionInit /\ [][UnionNext]_vars

\* C21: the type function of a union returns the result of the first type,
\* in the given order, whose result is neither null nor undefined nor a
\* Flag.fail, having cast with exactly the types up to that one, and returns
\* null, having cast with all of them, when every type fails.
C21_FirstNonFailure ==
    LET Fails(i) == unTypes[i].kind \in {"null", "undefined", "fail"}
        Good == {i \in DOMAIN unTypes : ~Fails(i)}
    IN /\ unInvoked = [k \in 1..Len(unInvoked) |-> k]
       /\ Len(unInvoked) <= Len(unTypes)
       /\ \A i \in Good : Len(unInvoked) <= i
       /\ unPc = "returned" =>
              IF Good = {}
              THEN unRet = NullArg /\ Len(unInvoked) = Len(unTypes)
              ELSE \E i \in Good :
                       /\ \A j \in Good : i <= j
                       /\ unRet = unTypes[i]
                       /\ Len(unInvoked) = i

\* The union returned the result of its second type after the first gave a
\* Flag.fail, and a third type that would have given a value was not used.
C21_Witness ==
    /\ unPc = "returned"
    /\ Len(unTypes) = 3
    /\ unTypes[1].kind = "fail"
    /\ unTypes[2].kind = "zero"
    /\ unTypes[3].kind = "member"
    /\ unRet = unTypes[2]
    /\ unInvoked = <<1, 2>>

(***************************************************************************)
(* TypeResolver: the built-in channel types.                               *)
(***************************************************************************)

\* The channels a guild may have: name and ChannelType of each id.
ChannelIds == {"c1", "c2", "c3", "c4", "c5", "c6", "c7"}
ChannelName ==
    [c1 |-> "general", c2 |-> "general-voice", c3 |-> "general-cat",
     c4 |-> "news", c5 |-> "stage", c6 |-> "forum", c7 |-> "news-archive"]
ChannelTypeOf ==
    [c1 |-> "GuildText", c2 |-> "GuildVoice", c3 |-> "GuildCategory",
     c4 |-> "GuildAnnouncement", c5 |-> "GuildStageVoice", c6 |-> "GuildForum",
     c7 |-> "GuildCategory"]
ChannelPhrases == {"", "c4", "<#c1>", "gen", "#news", "stage", "forum", "zzz"}

\* addBuiltInTypes: the ChannelType each singular and each plural type is
\* built with.
SingularTypes ==
    [textChannel |-> "GuildText", voiceChannel |-> "GuildVoice",
     categoryChannel |-> "GuildCategory", newsChannel |-> "GuildAnnouncement",
     stageChannel |-> "GuildStageVoice", forumChannel |-> "GuildForum"]
PluralTypes ==
    [textChannels |-> "GuildText", voiceChannels |-> "GuildVoice",
     categoryChannels |-> "GuildCategory", newsChannels |-> "GuildCategory",
     stageChannels |-> "GuildStageVoice", forumChannels |-> "GuildForum"]

\* The singular type of each plural one.
SingularOf ==
    [textChannels |-> "textChannel", voiceChannels |-> "voiceChannel",
     categoryChannels |-> "categoryChannel", newsChannels |-> "newsChannel",
     stageChannels |-> "stageChannel", forumChannels |-> "forumChannel"]

\* checkChannel with caseSensitive = false, wholeWord = false, on the lower
\* case names and texts of the model: id, mention, or name.includes of the
\* text or of the text without its leading '#'.
checkChannel(text, c) ==
    LET plain == IF text = "#news" THEN "news" ELSE text
        includes(name, t) ==
            \/ t = "" \/ t = name
            \/ t = "gen" /\ name \in {"general", "general-voice", "general-cat"}
            \/ t = "news" /\ name = "news-archive"
    IN \/ c = text
       \/ text = "<#c1>" /\ c = "c1"
       \/ includes(ChannelName[c], text)
       \/ includes(ChannelName[c], plain)

\* resolveChannels, and resolveChannel: get(text) ?? find(checkChannel) ?? null
\* (find takes the first channel of the cache, kept in id order).
resolveChannels(text, channels) == {c \in channels : checkChannel(text, c)}
resolveChannel(text, channels) ==
    IF text \in channels THEN {text}
    ELSE IF resolveChannels(text, channels) = {} THEN {}
    ELSE {CHOOSE c \in resolveChannels(text, channels) :
              \A d \in resolveChannels(text, channels) :
                  \E k \in 1..7 : \E l \in k..7 :
                      /\ c = <<"c1", "c2", "c3", "c4", "c5", "c6", "c7">>[k]
                      /\ d = <<"c1", "c2", "c3", "c4", "c5", "c6", "c7">>[l]}

ChReturn(kind, found) ==
    IF found = {} THEN [kind |-> "null", val |-> {}] ELSE [kind |-> kind, val |-> found]

\* singleChannelBuiltInType(type) and multipleChannelBuiltInType(type).
singleChannelBuiltInType(type, call) ==
    IF call.phrase = "" \/ ~call.inGuild THEN ChReturn("channel", {})
    ELSE ChReturn("channel",
                  {c \in resolveChannel(call.phrase, chGuild) : ChannelTypeOf[c] = type})
multipleChannelBuiltInType(type, call) ==
    IF call.phrase = "" \/ ~call.inGuild THEN ChReturn("collection", {})
    ELSE ChReturn("collection",
                  {c \in resolveChannels(call.phrase, chGuild) : ChannelTypeOf[c] = type})

ChInit ==
    /\ chGuild \in SUBSET ChannelIds
    /\ chCall = [type |-> "", phrase |-> "", inGuild |-> TRUE]
    /\ chRet = [kind |-> "none", val |-> {}]
    /\ StaffIdle
    /\ CompIdle
    /\ ReadyIdle
    /\ CmIdle
    /\ HandlerIdle
    /\ InhIdle
    /\ ArgIdle
    /\ UnionIdle
    /\ CuIdle
    /\ TkIdle
    /\ CpIdle

\* A phrase is cast with a singular channel type.
CastSingular(type, phrase, inGuild) ==
    /\ chCall' = [type |-> type, phrase |-> phrase, inGuild |-> inGuild]
    /\ chRet' = singleChannelBuiltInType(SingularTypes[type], chCall')
    /\ UNCHANGED chGuild
    /\ UNCHANGED notCh

\* A phrase is cast with a plural channel type.
CastPlural(type, phrase, inGuild) ==
    /\ chCall' = [type |-> type, phrase |-> phrase, inGuild |-> inGuild]
    /\ chRet' = multipleChannelBuiltInType(PluralTypes[type], chCall')
    /\ UNCHANGED chGuild
    /\ UNCHANGED notCh

ChNext ==
    \/ \E type \in DOMAIN SingularTypes, phrase \in ChannelPhrases, inGuild \in BOOLEAN :
           CastSingular(type, phrase, inGuild)
    \/ \E type \in DOMAIN PluralTypes, phrase \in ChannelPhrases, inGuild \in BOOLEAN :
           CastPlural(type, phrase, inGuild)

ChSpec == ChInit /\ [][ChNext]_vars

\* C22: a plural channel type, given a phrase in a guild, returns the
\* collection of the channels matching the phrase whose type is the one the
\* singular type of the pair accepts, or null when there is none.
C22_PluralMatchesSingular ==
    (chCall.type \in DOMAIN PluralTypes /\ chCall.phrase # "" /\ chCall.inGuild) =>
        LET accepted == SingularTypes[SingularOf[chCall.type]]
            matching == {c \in chGuild : /\ checkChannel(chCall.phrase, c)
                                         /\ ChannelTypeOf[c] = accepted}
        IN IF matching = {}
           THEN chRet.kind = "null"
           ELSE chRet = [kind |-> "collection", val |-> matching]

(***************************************************************************)
(* CommandUtil.send for a message that is no slash command.  The calls of  *)
(* send follow one another: each is awaited before the next.               *)
(***************************************************************************)

\* The number of calls of send.
MaxSends == 3

\* The state send decides on: lastResponse and what is known of it.
SendState(hasFiles) ==
    [hasFiles |-> hasFiles,
     shouldEdit |-> cuShouldEdit,
     last |-> cuLast,
     lastDeleted |-> cuLast \in cuDeleted,
     lastAttachments |-> cuLast # 0 /\ cuChannel[cuLast].attachments]

SendDecisionNoAttachmentCheck(st) ==
    IF st.shouldEdit /\ ~st.hasFiles
    THEN IF st.last = 0 THEN "TypeError"
         ELSE IF ~st.lastDeleted THEN "edit" ELSE "send"
    ELSE "send"

\* send, lines 163-170: edit the last response, send a new message, or
\* throw on lastResponse!.id when shouldEdit is set without a last response.
SendDecision(st) ==
    IF st.shouldEdit /\ ~st.hasFiles
    THEN IF st.last = 0 THEN "TypeError"
         ELSE IF ~st.lastDeleted /\ ~st.lastAttachments THEN "edit" ELSE "send"
    ELSE "send"

CuInit ==
    /\ cuLast = 0
    /\ cuShouldEdit = FALSE
    /\ cuChannel = <<>>
    /\ cuDeleted = {}
    /\ cuPc = "idle"
    /\ cuLog = <<>>
    /\ cuQuiet = TRUE
    /\ StaffIdle
    /\ CompIdle
    /\ ReadyIdle
    /\ CmIdle
    /\ HandlerIdle
    /\ InhIdle
    /\ ArgIdle
    /\ UnionIdle
    /\ ChIdle
    /\ TkIdle
    /\ CpIdle

\* send(options), up to the await of lastResponse.edit or of channel.send.
Send(hasFiles) ==
    /\ cuPc = "idle"
    /\ Len(cuLog) < MaxSends
    /\ LET st == SendState(hasFiles)
           op == SendDecision(st)
       IN /\ cuLog' = Append(cuLog, [op |-> op, st |-> st])
          /\ cuPc' = IF op = "edit" THEN "editing"
                     ELSE IF op = "send" THEN "sending" ELSE "idle"
          /\ cuQuiet' = (cuQuiet /\ ~hasFiles /\ op # "TypeError")
    /\ UNCHANGED <<cuLast, cuShouldEdit, cuChannel, cuDeleted>>
    /\ UNCHANGED notCu

\* lastResponse.edit settles: the message is edited unless it is gone.
EditSettle ==
    /\ cuPc = "editing"
    /\ cuPc' = "idle"
    /\ cuChannel' = IF cuLast \in cuDeleted THEN cuChannel
                    ELSE [cuChannel EXCEPT ![cuLast].edits = @ + 1]
    /\ UNCHANGED <<cuLast, cuShouldEdit, cuDeleted, cuLog, cuQuiet>>
    /\ UNCHANGED notCu

\* channel.send resolves with the new message: setLastResponse(sent) and
\* setEditable(!lastSent.attachments.size).
SendSettle ==
    /\ cuPc = "sending"
    /\ cuPc' = "idle"
    /\ LET files == cuLog[Len(cuLog)].st.hasFiles
       IN /\ cuChannel' = Append(cuChannel, [attachments |-> files, edits |-> 0])
          /\ cuShouldEdit' = ~files
    /\ cuLast' = Len(cuChannel) + 1
    /\ UNCHANGED <<cuDeleted, cuLog, cuQuiet>>
    /\ UNCHANGED notCu

\* setEditable(state), as called by a prompt or by a command.
SetEditable(state) ==
    /\ cuPc = "idle"
    /\ cuShouldEdit' = state
    /\ cuQuiet' = FALSE
    /\ UNCHANGED <<cuLast, cuChannel, cuDeleted, cuPc, cuLog>>
    /\ UNCHANGED notCu

\* A message of the channel is deleted and recorded in deletedMessages.
DeleteMessage(id) ==
    /\ id \in DOMAIN cuChannel
    /\ id \notin cuDeleted
    /\ cuDeleted' = cuDeleted \cup {id}
    /\ cuQuiet' = FALSE
    /\ UNCHANGED <<cuLast, cuShouldEdit, cuChannel, cuPc, cuLog>>
    /\ UNCHANGED notCu

CuNext ==
    \/ \E hasFiles \in BOOLEAN : Send(hasFiles)
    \/ EditSettle
    \/ SendSettle
    \/ \E state \in BOOLEAN : SetEditable(state)
    \/ \E id \in 1..MaxSends : DeleteMessage(id)

CuSpec == CuInit /\ [][CuNext]_vars

\* Every call of send that had a last response to look at edited it exactly
\* when shouldEdit was set, the options carried no files and the last
\* response was neither recorded as deleted nor had attachments, and sent a
\* new message otherwise; and as long as nothing but sends without files has
\* happened, the channel has one message at most and every send after the
\* first is an edit.
C23_Decisions ==
    /\ \A k \in DOMAIN cuLog :
           LET e == cuLog[k]
           IN /\ e.op = "TypeError" => e.st.last = 0
              /\ e.st.last # 0 =>
                     /\ e.op \in {"edit", "send"}
                     /\ e.op = "edit" <=>
                            /\ e.st.shouldEdit
                            /\ ~e.st.hasFiles
                            /\ ~e.st.lastDeleted
                            /\ ~e.st.lastAttachments
    /\ cuQuiet =>
           /\ Len(cuChannel) <= 1
           /\ \A k \in DOMAIN cuLog : cuLog[k].op = IF k = 1 THEN "send" ELSE "edit"

\* A new message becomes lastResponse, and shouldEdit becomes true iff it has
\* no attachments.
C23_NewMessage ==
    Len(cuChannel') > Len(cuChannel) =>
        /\ cuLast' = Len(cuChannel')
        /\ cuShouldEdit' <=> ~cuChannel'[cuLast'].attachments

MaxClock == 4

\* The number of calls of startAll that are followed.
MaxStartAll == 2

\* The tasks that may be loaded, in the order of modules: runOnStart and
\* delay (0 stands for a delay that is not set or is zero).
TaskIds == {1, 2}
TaskSet == [runOnStart : BOOLEAN, delay : {0, 1, 2}]

FirstFireAtOnce(now, delay) == now

\* setInterval(callback, delay): the first call is one delay from now.
FirstFire(now, delay) == now + delay

TkInit ==
    /\ \E ids \in SUBSET TaskIds : tkTasks \in [ids -> TaskSet]
    /\ tkListeners = 0
    /\ tkReadyAt = -1
    /\ tkAtReady = {}
    /\ tkClock = 0
    /\ tkTimers = <<>>
    /\ tkRuns = [id \in TaskIds |-> <<>>]
    /\ tkRan = 0
    /\ StaffIdle
    /\ CompIdle
    /\ ReadyIdle
    /\ CmIdle
    /\ HandlerIdle
    /\ InhIdle
    /\ ArgIdle
    /\ UnionIdle
    /\ ChIdle
    /\ CuIdle
    /\ CpIdle

\* A task is loaded into the handler.
LoadTask(id, task) ==
    /\ id \notin DOMAIN tkTasks
    /\ tkTasks' = [i \in DOMAIN tkTasks \cup {id} |-> IF i = id THEN task ELSE tkTasks[i]]
    /\ UNCHANGED <<tkListeners, tkReadyAt, tkAtReady, tkClock, tkTimers, tkRuns, tkRan>>
    /\ UNCHANGED notTk

\* startAll(): client.once("ready", ...); every call adds a listener.
\* The calls are followed up to the 'ready' event the listeners run on.
StartAll ==
    /\ tkListeners < MaxStartAll
    /\ tkReadyAt = -1
    /\ tkListeners' = tkListeners + 1
    /\ UNCHANGED <<tkTasks, tkReadyAt, tkAtReady, tkClock, tkTimers, tkRuns, tkRan>>
    /\ UNCHANGED notTk

\* count times the time now.
Repeat(now, count) == [k \in 1..count |-> now]

\* The client emits 'ready': the once-listeners, if any, are taken off and
\* each runs over the modules.
ClientReady ==
    /\ IF tkListeners = 0
       THEN UNCHANGED <<tkListeners, tkReadyAt, tkAtReady, tkTimers, tkRuns, tkRan>>
       ELSE /\ tkListeners' = 0
            /\ tkRan' = tkListeners
            /\ tkReadyAt' = tkClock
            /\ tkAtReady' = DOMAIN tkTasks
            /\ tkRuns' = [id \in TaskIds |->
                             IF id \in DOMAIN tkTasks /\ tkTasks[id].runOnStart
                             THEN tkRuns[id] \o Repeat(tkClock, tkListeners)
                             ELSE tkRuns[id]]
            /\ tkTimers' = [id \in {i \in DOMAIN tkTasks : tkTasks[i].delay # 0} |->
                               FirstFire(tkClock, tkTasks[id].delay)]
    /\ UNCHANGED <<tkTasks, tkClock>>
    /\ UNCHANGED notTk

\* The intervals of a task fire, one for each listener that ran: exec is
\* called and the next call is one delay later.
IntervalFire(id) ==
    /\ id \in DOMAIN tkTimers
    /\ tkTimers[id] = tkClock
    /\ tkRuns' = [tkRuns EXCEPT ![id] = @ \o Repeat(tkClock, tkRan)]
    /\ tkTimers' = [tkTimers EXCEPT ![id] = tkClock + tkTasks[id].delay]
    /\ UNCHANGED <<tkTasks, tkListeners, tkReadyAt, tkAtReady, tkClock, tkRan>>
    /\ UNCHANGED notTk

\* Time moves on once every interval that is due has fired.
Tick ==
    /\ tkClock < MaxClock
    /\ \A id \in DOMAIN tkTimers : tkTimers[id] > tkClock
    /\ tkClock' = tkClock + 1
    /\ UNCHANGED <<tkTasks, tkListeners, tkReadyAt, tkAtReady, tkTimers, tkRuns, tkRan>>
    /\ UNCHANGED notTk

TkNext ==
    \/ \E id \in TaskIds, task \in TaskSet : LoadTask(id, task)
    \/ StartAll
    \/ ClientReady
    \/ \E id \in TaskIds : IntervalFire(id)
    \/ Tick

TkSpec == TkInit /\ [][TkNext]_vars

MaxContent == 3

Alphabet == {"a", " ", "q", "e", "s", "f", "p"}
Contents == UNION {[1..n -> Alphabet] : n \in 0..MaxContent}

\* The options of the ContentParser: quoted and separator ("none" when it
\* is not set); flagWords is ["f"] and optionFlagWords is ["p"].
ParserOptionSet == [quoted : BOOLEAN, separator : {"none", "s"}]
flagWords == {"f"}
optionFlagWords == {"p"}

\* The number of characters from position on that are all in chars.
RunLength(content, position, chars) ==
    CHOOSE n \in 0..(Len(content) - position + 1) :
        /\ \A i \in position..(position + n - 1) : content[i] \in chars
        /\ position + n > Len(content) \/ content[position + n] \notin chars

\* wordRegex of runWord: /^\S+/ in the Default state, /^[^\s"]+/ in the
\* Quotes state; SpecialQuotes has the value of Quotes.
WordChars(state) == IF state = 0 THEN Alphabet \ {" "} ELSE Alphabet \ {" ", "q"}

\* runWord: the word, cut before the separator when there is one in it;
\* false (no token) when the word is the separator.
RunWord(content, position, state, options) ==
    LET length == RunLength(content, position, WordChars(state))
        cut == RunLength(content, position, WordChars(state) \ {options.separator})
    IN IF length = 0 THEN [type |-> "none", length |-> 0, state |-> state]
       ELSE IF options.separator = "none"
       THEN [type |-> "Word", length |-> length, state |-> state]
       ELSE IF length = 1 /\ content[position] = options.separator
       THEN [type |-> "none", length |-> 0, state |-> state]
       ELSE [type |-> "Word", length |-> cut, state |-> state]

\* runOne: the first of runWhitespace, runFlags, runOptionFlags, runQuote,
\* runOpenQuote, runEndQuote, runSeparator and runWord that applies.
\* runOpenQuote tests for the same character as runQuote and comes after it.
RunOneToken(content, position, state, options) ==
    LET c == content[position]
        quotes == options.separator = "none" /\ options.quoted
    IN IF c = " "
       THEN [type |-> "WS", length |-> RunLength(content, position, {" "}), state |-> state]
       ELSE IF state = 0 /\ c \in flagWords
       THEN [type |-> "FlagWord", length |-> 1, state |-> state]
       ELSE IF state = 0 /\ c \in optionFlagWords
       THEN [type |-> "OptionFlagWord", length |-> 1, state |-> state]
       ELSE IF quotes /\ c = "q"
       THEN [type |-> "Quote", length |-> 1, state |-> 1 - state]
       ELSE IF quotes /\ c = "e"
       THEN [type |-> "EndQuote", length |-> 1, state |-> 0]
       ELSE IF options.separator # "none" /\ c = options.separator
       THEN [type |-> "Separator", length |-> 1, state |-> state]
       ELSE RunWord(content, position, state, options)

\* lookaheadN: the type of the token at a position, "none" past the end.
TypeAt(tokens, position) ==
    IF position \in 1..Len(tokens) THEN tokens[position].type ELSE "none"

\* The number of tokens from position on whose types are all in types.
TokenRun(tokens, position, types) ==
    CHOOSE n \in 0..(Len(tokens) - position + 1) :
        /\ \A i \in position..(position + n - 1) : tokens[i].type \in types
        /\ TypeAt(tokens, position + n) \notin types

\* The values of the tokens from..to whose type is in types, put together.
RECURSIVE ValuesOf(_, _, _, _)
ValuesOf(tokens, from, to, types) ==
    IF from > to THEN <<>>
    ELSE (IF tokens[from].type \in types THEN tokens[from].value ELSE <<>>)
             \o ValuesOf(tokens, from + 1, to, types)

\* The value of the token at position when it has the type, else "".
Optional(tokens, position, type) ==
    IF TypeAt(tokens, position) = type THEN tokens[position].value ELSE <<>>

\* The position after an optional token of the type.
Skip(tokens, position, type) ==
    IF TypeAt(tokens, position) = type THEN position + 1 ELSE position

Unexpected(position) ==
    [thrown |-> TRUE, position |-> position, value |-> <<>>, raw |-> <<>>]

\* parsePhrase in the separated mode: a Word, then WS Word pairs.
ParseSeparated(tokens, position) ==
    IF TypeAt(tokens, position) # "Word" THEN Unexpected(position)
    ELSE LET pairs == CHOOSE k \in 0..Len(tokens) :
                          /\ \A j \in 0..(k - 1) :
                                 /\ TypeAt(tokens, position + 1 + 2 * j) = "WS"
                                 /\ TypeAt(tokens, position + 2 + 2 * j) = "Word"
                          /\ ~ /\ TypeAt(tokens, position + 1 + 2 * k) = "WS"
                               /\ TypeAt(tokens, position + 2 + 2 * k) = "Word"
             value == ValuesOf(tokens, position, position + 2 * pairs, {"Word", "WS"})
         IN [thrown |-> FALSE, position |-> position + 2 * pairs + 1,
             value |-> value, raw |-> value]

\* parsePhrase from a Quote or an OpenQuote: the tokens up to the closing
\* one; the value has the words and whitespace (Quote) or the words only.
ParseQuoted(tokens, position, closing, valueTypes) ==
    LET inner == TokenRun(tokens, position + 1, {"Word", "WS"})
        after == position + 1 + inner
    IN [thrown |-> FALSE,
        position |-> Skip(tokens, after, closing),
        value |-> ValuesOf(tokens, position + 1, after - 1, valueTypes),
        raw |-> tokens[position].value
                  \o ValuesOf(tokens, position + 1, after - 1, {"Word", "WS"})
                  \o Optional(tokens, after, closing)]

\* Parser.parsePhrase; match("Word") throws on any other token.
ParsePhrase(tokens, position, separated) ==
    IF ~separated /\ TypeAt(tokens, position) = "Quote"
    THEN ParseQuoted(tokens, position, "Quote", {"Word", "WS"})
    ELSE IF ~separated /\ TypeAt(tokens, position) = "OpenQuote"
    THEN ParseQuoted(tokens, position, "EndQuote", {"Word"})
    ELSE IF ~separated /\ TypeAt(tokens, position) = "EndQuote"
    THEN [thrown |-> FALSE, position |-> position + 1,
          value |-> tokens[position].value, raw |-> tokens[position].value]
    ELSE IF separated
    THEN ParseSeparated(tokens, position)
    ELSE IF TypeAt(tokens, position) = "Word"
    THEN [thrown |-> FALSE, position |-> position + 1,
          value |-> tokens[position].value, raw |-> tokens[position].value]
    ELSE Unexpected(position)

\* Parser.parseFlag, called on a FlagWord or an OptionFlagWord.
ParseFlag(tokens, position, separated) ==
    IF TypeAt(tokens, position) = "FlagWord"
    THEN [thrown |-> FALSE, position |-> position + 1, type |-> "Flag",
          key |-> tokens[position].value, value |-> <<>>, raw |-> tokens[position].value]
    ELSE LET afterWs == Skip(tokens, position + 1, "WS")
             head == tokens[position].value \o Optional(tokens, position + 1, "WS")
             phrase == ParsePhrase(tokens, afterWs, separated)
         IN IF TypeAt(tokens, afterWs) \in {"Quote", "OpenQuote", "EndQuote", "Word"}
            THEN [thrown |-> phrase.thrown, position |-> phrase.position,
                  type |-> "OptionFlag", key |-> tokens[position].value,
                  value |-> phrase.value, raw |-> head \o phrase.raw]
            ELSE [thrown |-> FALSE, position |-> afterWs, type |-> "OptionFlag",
                  key |-> tokens[position].value, value |-> <<>>, raw |-> head]

\* Parser.runArgument: leading whitespace, a flag or a phrase, trailing
\* whitespace and a separator.
ParseArgument(tokens, position, separated) ==
    LET start == Skip(tokens, position, "WS")
        phrase == ParsePhrase(tokens, start, separated)
        parsed == IF TypeAt(tokens, start) \in {"FlagWord", "OptionFlagWord"}
                  THEN ParseFlag(tokens, start, separated)
                  ELSE [thrown |-> phrase.thrown, position |-> phrase.position,
                        type |-> "Phrase", key |-> <<>>,
                        value |-> phrase.value, raw |-> phrase.raw]
        afterWs == Skip(tokens, parsed.position, "WS")
    IN [thrown |-> parsed.thrown,
        position |-> Skip(tokens, afterWs, "Separator"),
        parsed |-> [type |-> parsed.type, key |-> parsed.key, value |-> parsed.value,
                    raw |-> Optional(tokens, position, "WS") \o parsed.raw
                              \o Optional(tokens, parsed.position, "WS")
                              \o Optional(tokens, afterWs, "Separator")]]

CpInit ==
    /\ cpContent \in Contents
    /\ cpOptions \in ParserOptionSet
    /\ cpPhase = "tokenize"
    /\ cpPosition = 1
    /\ cpState = 0
    /\ cpTokens = <<>>
    /\ cpResults = <<>>
    /\ StaffIdle
    /\ CompIdle
    /\ ReadyIdle
    /\ CmIdle
    /\ HandlerIdle
    /\ InhIdle
    /\ ArgIdle
    /\ UnionIdle
    /\ ChIdle
    /\ CuIdle
    /\ TkIdle

\* Tokenizer.runOne, one turn of the loop of tokenize.
RunOne ==
    /\ cpPhase = "tokenize"
    /\ cpPosition <= Len(cpContent)
    /\ LET token == RunOneToken(cpContent, cpPosition, cpState, cpOptions)
       IN /\ cpTokens' = IF token.type = "none" THEN cpTokens
                         ELSE Append(cpTokens,
                                  [type |-> token.type,
                                   value |-> SubSeq(cpContent, cpPosition,
                                                    cpPosition + token.length - 1)])
          /\ cpPosition' = cpPosition + token.length
          /\ cpState' = token.state
    /\ UNCHANGED <<cpContent, cpOptions, cpPhase, cpResults>>
    /\ UNCHANGED notCp

\* The end of tokenize: the EOF token; the Parser is made from the tokens.
TokenizeEnd ==
    /\ cpPhase = "tokenize"
    /\ cpPosition > Len(cpContent)
    /\ cpTokens' = Append(cpTokens, [type |-> "EOF", value |-> <<>>])
    /\ cpPhase' = "parse"
    /\ cpPosition' = 1
    /\ UNCHANGED <<cpContent, cpOptions, cpState, cpResults>>
    /\ UNCHANGED notCp

\* Parser.runArgument, one turn of the loop of Parser.parse.
RunArgument ==
    /\ cpPhase = "parse"
    /\ cpPosition < Len(cpTokens)
    /\ LET argument == ParseArgument(cpTokens, cpPosition, cpOptions.separator # "none")
       IN IF argument.thrown
          THEN /\ cpPhase' = "thrown"
               /\ UNCHANGED <<cpPosition, cpResults>>
          ELSE /\ cpPosition' = argument.position
               /\ cpResults' = Append(cpResults, argument.parsed)
               /\ UNCHANGED cpPhase
    /\ UNCHANGED <<cpContent, cpOptions, cpState, cpTokens>>
    /\ UNCHANGED notCp

\* The end of Parser.parse: match("EOF") and the results are returned.
ParseEnd ==
    /\ cpPhase = "parse"
    /\ cpPosition >= Len(cpTokens)
    /\ cpPhase' = IF TypeAt(cpTokens, cpPosition) = "EOF" THEN "returned" ELSE "thrown"
    /\ UNCHANGED <<cpContent, cpOptions, cpPosition, cpState, cpTokens, cpResults>>
    /\ UNCHANGED notCp

CpNext ==
    \/ RunOne
    \/ TokenizeEnd
    \/ RunArgument
    \/ ParseEnd

CpSpec == CpInit /\ [][CpNext]_vars

\* C27: the 'Unexpected token' error of Parser.match is never raised:
\* ContentParser.parse does not throw, whatever the content and the options.
C27_NeverUnexpectedToken == cpPhase # "thrown"

\* The contents on which parse throws: an argument starts, after its
\* leading whitespace, at the EOF or at a separator.  That is whitespace-only
\* content and, with a separator, content that starts with the separator,
\* has two of them with at most whitespace in between, or ends with the
\* separator and whitespace.
Rejected(content, options) ==
    LET letters == SelectSeq(content, LAMBDA c : c # " ")
        last == Len(letters)
    IN \/ Len(content) > 0 /\ last = 0
       \/ /\ options.separator # "none"
          /\ last > 0
          /\ \/ letters[1] = options.separator
             \/ \E i \in 1..(last - 1) :
                    letters[i] = options.separator /\ letters[i + 1] = options.separator
             \/ letters[last] = options.separator /\ content[Len(content)] = " "

ThrowsExactlyOn ==
    /\ cpPhase = "thrown" => Rejected(cpContent, cpOptions)
    /\ cpPhase = "returned" => ~Rejected(cpContent, cpOptions)

(***************************************************************************)
(* Invocations of Staff.exec one after the other: an invocation starts     *)
(* when no other is in flight.  The invocations take the two places of     *)
(* Invs in turn, so that the last two invocations are both on record.      *)
(***************************************************************************)
InFlight(i) == pc[i] \notin {"idle", "done", "rejected"}

\* The place of the invocation started last, and of the one before it.
LastInv == ((started - 1) % 2) + 1
PrevInv == 3 - LastInv

ConsecutiveStart(i, phrase) ==
    /\ \A j \in Invs : ~InFlight(j)
    /\ i = (started % 2) + 1
    /\ Start(i, phrase)

ConsecutiveNext ==
    \E i \in Invs :
        \/ \E phrase \in Phrases : ConsecutiveStart(i, phrase)
        \/ GetRoleResolve(i)
        \/ GetRoleReject(i)
        \/ \E ok \in BOOLEAN : FetchSettle(i, ok)
        \/ MutateResolve(i)
        \/ MutateReject(i)
        \/ SendResolve(i)
        \/ SendReject(i)

ConsecutiveSpec == Init /\ [][ConsecutiveNext]_vars

\* An invocation that got past the checks, mutated and replied.
Successful(i) == pc[i] = "done" /\ Passed(i) /\ Len(Mutations(i)) = 1

\* C28: when two invocations that follow one another without overlapping
\* have both succeeded on the same member, one has added the bound role and
\* the other has removed it, and the member's roles are those from before
\* the first of the two.  Any one such invocation flips the membership of
\* the bound role and leaves the member's other roles, so that an odd
\* number of them in a row flips it.
C28_Involution ==
    /\ \A i \in Invs :
           (Successful(i) /\ i = LastInv) =>
               SymDiff(memberRoles[arg[i].val], pre[i][arg[i].val]) = {binding}
    /\ (/\ started >= 2
        /\ Successful(PrevInv) /\ Successful(LastInv)
        /\ arg[PrevInv].val = arg[LastInv].val) =>
           /\ memberRoles[arg[LastInv].val] = pre[PrevInv][arg[LastInv].val]
           /\ {Mutations(PrevInv)[1].op, Mutations(LastInv)[1].op} = {"add", "remove"}
           /\ SymDiff(pre[LastInv][arg[LastInv].val], pre[PrevInv][arg[LastInv].val])
                  = {binding}

\* Three invocations in a row on the same member, the last two on record:
\* the second removed the role the first had added, the third added it
\* again, and the member holds it.
C28_Witness ==
    /\ started = 3
    /\ Successful(1) /\ Successful(2)
    /\ arg[1].val = arg[2].val
    /\ Mutations(2)[1].op = "remove"
    /\ Mutations(1)[1].op = "add"
    /\ binding \in memberRoles[arg[1].val]
    /\ binding \in pre[2][arg[1].val]
    /\ binding \notin pre[1][arg[1].val]

\* C29: the add/remove of an invocation leaves the member's roles as they
\* are exactly when what the invocation observed at its check is no longer
\* so (another invocation's add/remove has resolved in between); the
\* invocation then replies 'Added' ('Removed') all the same, as it observed
\* the role as not held (held).
C29_StaleToggle ==
    [][ \A i \in Invs :
            (pc[i] = "mutate" /\ pc'[i] = "send") =>
                LET m == arg[i].val
                    stale == (observed[i] = "notheld") <=> (role[i] \in memberRoles[m])
                    reply == log'[i][Len(log'[i])]
                IN /\ (memberRoles' = memberRoles) <=> stale
                   /\ reply.op = "send"
                   /\ reply.text = IF observed[i] = "notheld" THEN Added ELSE Removed
      ]_vars

\* Two invocations for the same member, started from the same roles, have
\* both observed the role as not held, both called roles.add and both
\* replied 'Added'; the member's roles are what one add alone leaves.
C29_Witness ==
    /\ arg[1].kind = "member" /\ arg[1] = arg[2]
    /\ \A i \in Invs :
           /\ pc[i] = "done" /\ Passed(i)
           /\ observed[i] = "notheld"
           /\ Len(Mutations(i)) = 1 /\ Mutations(i)[1].op = "add"
           /\ Len(Sends(i)) = 1 /\ Sends(i)[1].text = Added
    /\ pre[1] = pre[2]
    /\ binding \notin pre[1][arg[1].val]
    /\ memberRoles[arg[1].val] = pre[1][arg[1].val] \cup {binding}

====
